---- MODULE Spec2Model ----
(***************************************************************************)
(* A model of kortschak/ardilla: the Stream Deck protocol engine           *)
(* (deck.go) and its device descriptor registry.                           *)
(*                                                                         *)
(* Bytes are naturals in 0..255, byte slices and strings are sequences of  *)
(* bytes.  One Deck value d is modelled together with the HID bus it talks *)
(* to: one physical unit that can be plugged and unplugged, the handles    *)
(* opened on it, and the transport calls made on those handles.            *)
(***************************************************************************)
EXTENDS Integers, Sequences, FiniteSets, TLC

(***************************************************************************)
(* Bounds of the model.                                                    *)
(***************************************************************************)
\* Body bytes carried by one image report in the model.  The registry's
\* imgReportLen (1024 or 8191) leaves 1008, 8175 or 1016 body bytes; the
\* chunking loop depends only on how the payload length compares with the
\* body capacity, so the model's reports carry BodyCap body bytes after the
\* full, unscaled header.
BodyCap == 3
\* Longest encoded payload handed to SetImage.
MaxLen == 7
\* Number of handles the bus hands out over one behaviour.
MaxHandles == 3
\* Number of delay cycles one Reconnect call may run.
MaxCycles == 2
\* Widths and heights of source images run over 1..MaxSide and about the
\* side of a key.
MaxSide == 4

(***************************************************************************)
(* PIDs (product identifiers).                                             *)
(***************************************************************************)
StreamDeckMini == 99
StreamDeckMiniV2 == 144
StreamDeckOriginal == 96
StreamDeckOriginalV2 == 109
StreamDeckMK2 == 128
StreamDeckXL == 108
StreamDeckPedal == 134
\* hid.ProductIDAny
ProductIDAny == 0
\* A product identifier that is not in the registry.
UnknownPID == ProductIDAny + 1

PIDs == {StreamDeckMini, StreamDeckMiniV2, StreamDeckOriginal,
         StreamDeckOriginalV2, StreamDeckMK2, StreamDeckXL, StreamDeckPedal}

(***************************************************************************)
(* The descriptor registry.                                                *)
(***************************************************************************)
imageHeaderV1 == <<2, 1, 255, 0, 255, 255, 0, 0, 0, 0, 0, 0, 0, 0, 0, 0>>
imageHeaderV2 == <<2, 7, 255, 255, 255, 255, 255, 255>>

legacy(pid, cols, rows, keySize, transform, imgReportLen, serialPayloadLen) ==
    [PID |-> pid, cols |-> cols, rows |-> rows,
     visual |-> TRUE, keySize |-> keySize, transform |-> transform,
     encode |-> "bmp",
     imgReportLen |-> imgReportLen, imageHeader |-> imageHeaderV1,
     fillHeader |-> "writeHeaderV1",
     payloadLen |-> 17, serialPayloadLen |-> serialPayloadLen,
     resetKeyStream |-> <<2>>, reset |-> <<11, 99>>,
     brightness |-> <<5, 85, 170, 209, 1>>,
     serial |-> <<3>>, serialOffset |-> 5,
     firmware |-> <<4>>, firmwareOffset |-> 5,
     keyStatesOffset |-> 1]

current(pid, cols, rows, keySize) ==
    [PID |-> pid, cols |-> cols, rows |-> rows,
     visual |-> TRUE, keySize |-> keySize, transform |-> "rotate180",
     encode |-> "jpegEncode",
     imgReportLen |-> 1024, imageHeader |-> imageHeaderV2,
     fillHeader |-> "writeHeaderV2",
     payloadLen |-> 32, serialPayloadLen |-> 0,
     resetKeyStream |-> <<2>>, reset |-> <<3, 2>>,
     brightness |-> <<3, 8>>,
     serial |-> <<6>>, serialOffset |-> 2,
     firmware |-> <<5>>, firmwareOffset |-> 6,
     keyStatesOffset |-> 4]

pedal ==
    [PID |-> StreamDeckPedal, cols |-> 3, rows |-> 1,
     visual |-> FALSE, keySize |-> <<0, 0>>, transform |-> "nil",
     encode |-> "nil",
     imgReportLen |-> 0, imageHeader |-> <<>>,
     fillHeader |-> "nil",
     payloadLen |-> 32, serialPayloadLen |-> 0,
     resetKeyStream |-> <<>>, reset |-> <<>>,
     brightness |-> <<>>,
     serial |-> <<6>>, serialOffset |-> 2,
     firmware |-> <<5>>, firmwareOffset |-> 6,
     keyStatesOffset |-> 4]

devices ==
    [p \in PIDs |->
        CASE p = StreamDeckMini ->
                 legacy(StreamDeckMini, 3, 2, <<80, 80>>, "transpose", 1024, 0)
          [] p = StreamDeckMiniV2 ->
                 legacy(StreamDeckMiniV2, 3, 2, <<80, 80>>, "transpose", 1024, 32)
          [] p = StreamDeckOriginal ->
                 legacy(StreamDeckOriginal, 5, 3, <<72, 72>>, "rotate180", 8191, 0)
          [] p = StreamDeckOriginalV2 ->
                 current(StreamDeckOriginalV2, 5, 3, <<72, 72>>)
          [] p = StreamDeckMK2 ->
                 current(StreamDeckMK2, 5, 3, <<72, 72>>)
          [] p = StreamDeckXL ->
                 current(StreamDeckXL, 8, 4, <<96, 96>>)
          [] OTHER -> pedal]

\* A scratch buffer sized for the ordinary feature reports alone.
bufLenPayload(desc) == desc.payloadLen

\* The byte slices of the registry as the package initialises them.
Slices ==
    [p \in PIDs |->
        [imageHeader |-> devices[p].imageHeader,
         resetKeyStream |-> devices[p].resetKeyStream,
         reset |-> devices[p].reset,
         brightness |-> devices[p].brightness,
         serial |-> devices[p].serial,
         firmware |-> devices[p].firmware]]

\* (*device).bufLen
bufLen(desc) ==
    IF desc.serialPayloadLen # 0 THEN desc.serialPayloadLen ELSE desc.payloadLen

(***************************************************************************)
(* Byte-slice helpers.                                                     *)
(***************************************************************************)
Min(a, b) == IF a < b THEN a ELSE b

\* make([]byte, n)
Zeros(n) == [i \in 1..n |-> 0]

\* copy(dst, src): the first min(len(dst), len(src)) bytes of dst are
\* overwritten, the rest of dst is kept.
Copy(dst, src) ==
    [i \in 1..Len(dst) |-> IF i <= Len(src) THEN src[i] ELSE dst[i]]

\* dst with dst[at:] overwritten by copy(dst[at:], src); at is zero-based.
CopyAt(dst, at, src) ==
    [i \in 1..Len(dst) |->
        IF at < i /\ i <= at + Len(src) THEN src[i - at] ELSE dst[i]]

\* b with the zero-based index at set to v (b[at] = v).
SetByte(b, at, v) == [b EXCEPT ![at + 1] = v]

\* byte(x): conversion of an int to its low eight bits.
Byte(x) == x % 256

boolByte(b) == IF b THEN 1 ELSE 0

\* binary.LittleEndian.PutUint16(dst[at:], uint16(v))
PutUint16(dst, at, v) ==
    SetByte(SetByte(dst, at, (v % 65536) % 256), at + 1, (v % 65536) \div 256)

(***************************************************************************)
(* Image packet headers.                                                   *)
(***************************************************************************)
\* A V1 header whose page field stops at 255 instead of wrapping.
writeHeaderV1Saturated(dst, key, page, len, done) ==
    SetByte(SetByte(SetByte(dst, 2, IF page > 255 THEN 255 ELSE page),
                    4, boolByte(done)),
            5, Byte(key + 1))

writeHeaderV1(dst, key, page, len, done) ==
    SetByte(SetByte(SetByte(dst, 2, Byte(page)), 4, boolByte(done)),
            5, Byte(key + 1))

writeHeaderV2(dst, key, page, len, done) ==
    PutUint16(PutUint16(SetByte(SetByte(dst, 2, Byte(key)), 3, boolByte(done)),
                        4, len),
              6, page)

\* A header filler that takes the page for the key and the key for the page.
fillHeaderSwapped(desc, dst, key, page, len, done) ==
    IF desc.fillHeader = "writeHeaderV1"
    THEN writeHeaderV1(dst, page, key, len, done)
    ELSE writeHeaderV2(dst, page, key, len, done)

\* d.desc.fillHeader(dst, key, page, n, done)
fillHeader(desc, dst, key, page, len, done) ==
    IF desc.fillHeader = "writeHeaderV1"
    THEN writeHeaderV1(dst, key, page, len, done)
    ELSE writeHeaderV2(dst, key, page, len, done)

(***************************************************************************)
(* Strings and errors.                                                     *)
(***************************************************************************)
\* The empty string.
NoSerial == <<>>
\* The serial number of the physical unit on the bus ("A").
UnitSerial == <<65>>
\* A serial number no unit on the bus has ("B").
OtherSerial == <<66>>

ErrNotConnected == "device not connected"
\* Any error value handed back by the HID transport.
ErrTransport == "transport error"
NoErr == "nil"

(***************************************************************************)
(* State.                                                                  *)
(***************************************************************************)
VARIABLES
    reg,        \* the byte slices of the registry, per PID: the descriptor a
                \* Deck holds is a copy whose slices share their arrays
    unit,       \* the physical unit: [pid, serial, ahead], ahead the
                \* devices of other processes enumerated before it
    attached,   \* TRUE while the unit is enumerable on the bus
    opened,     \* number of handles the bus has handed out (handles 1..opened)
    hist,       \* per handle: first transport call, image traffic, closes
    stream,     \* handle that left a partial image in the unit's key
                \* streamer, 0 when the streamer is clean
    live,       \* TRUE while the caller holds an open Deck
    d,          \* the Deck: [desc (a PID), serial, dev (a handle), buf]
    pc,         \* position of the caller: "idle", or inside "SetImage",
                \* "Reconnect", "NewDeck"
    si,         \* locals of the running SetImage
    rc,         \* locals of the running Reconnect
    nd,         \* locals of the running NewDeck
    log,        \* transport calls of the current (or last) operation
    ret         \* what the last operation returned

(***************************************************************************)
(* Images.  A bitmap is an opaque value b; a *RawImage carries the         *)
(* original bitmap, the encoded payload and the PID it was encoded for.    *)
(* The encoders (bmp.Encode, jpeg.Encode) and the scaler are libraries     *)
(* outside the repository: their output is a fixed function of the model   *)
(* and the bitmap, here len(b) = b bytes whose values depend on the        *)
(* position, the bitmap and the model.                                     *)
(***************************************************************************)
Bitmaps == 1..MaxLen

Bitmap(b) == [raw |-> FALSE, Image |-> b, data |-> <<>>, pid |-> 0]

\* An encoder whose output depends on the call made before it.
EncodeShared(desc, b) ==
    [i \in 1..b |->
        (17 * i + 5 * b + desc.PID
            + (IF ret.op = "RawImage" THEN 1 ELSE 0)) % 256]

\* d.desc.encode(&buf, d.desc.transform(img)) after scaling img to the key.
Encode(desc, b) == [i \in 1..b |-> (17 * i + 5 * b + desc.PID) % 256]

\* PID.String, promoted to *device: the name of the model.
String(pid) ==
    CASE pid = StreamDeckMini -> "StreamDeckMini"
      [] pid = StreamDeckMiniV2 -> "StreamDeckMiniV2"
      [] pid = StreamDeckOriginal -> "StreamDeckOriginal"
      [] pid = StreamDeckOriginalV2 -> "StreamDeckOriginalV2"
      [] pid = StreamDeckMK2 -> "StreamDeckMK2"
      [] pid = StreamDeckXL -> "StreamDeckXL"
      [] pid = StreamDeckPedal -> "StreamDeckPedal"
      [] OTHER -> "PID"

\* fmt.Errorf("images not supported by %s", d.desc)
ImagesNotSupported(name) ==
    CASE name = "StreamDeckMini" -> "images not supported by StreamDeckMini"
      [] name = "StreamDeckMiniV2" -> "images not supported by StreamDeckMiniV2"
      [] name = "StreamDeckOriginal" ->
             "images not supported by StreamDeckOriginal"
      [] name = "StreamDeckOriginalV2" ->
             "images not supported by StreamDeckOriginalV2"
      [] name = "StreamDeckMK2" -> "images not supported by StreamDeckMK2"
      [] name = "StreamDeckXL" -> "images not supported by StreamDeckXL"
      [] name = "StreamDeckPedal" -> "images not supported by StreamDeckPedal"
      [] OTHER -> "images not supported by PID"


\* A RawImage that encodes for a control-only model as for any other.
RawImageBlind(desc, img) ==
    [err |-> NoErr,
     raw |-> [raw |-> TRUE, Image |-> img.Image,
              data |-> Encode(desc, img.Image), pid |-> desc.PID]]

\* A RawImage that hands back any *RawImage as it is, whatever model it
\* was prepared for.
RawImageTrusting(desc, img) ==
    IF ~desc.visual
    THEN [err |-> ImagesNotSupported(String(desc.PID)), raw |-> img]
    ELSE IF img.raw
    THEN [err |-> NoErr, raw |-> img]
    ELSE [err |-> NoErr,
          raw |-> [raw |-> TRUE, Image |-> img.Image,
                   data |-> Encode(desc, img.Image), pid |-> desc.PID]]

\* (*Deck).RawImage: the pair (*RawImage, error).
RawImage(desc, img) ==
    IF ~desc.visual
    THEN [err |-> ImagesNotSupported(String(desc.PID)), raw |-> img]
    ELSE IF img.raw /\ img.pid = desc.PID
    THEN [err |-> NoErr, raw |-> img]
    ELSE [err |-> NoErr,
          raw |-> [raw |-> TRUE, Image |-> img.Image,
                   data |-> Encode(desc, img.Image), pid |-> desc.PID]]

VisualPIDs == {p \in PIDs : devices[p].visual}

\* A visual model other than p.
OtherModel(p) == IF p = StreamDeckXL THEN StreamDeckMini ELSE StreamDeckXL

\* The images a caller hands to SetImage on a deck of model p: plain
\* bitmaps, RawImages prepared for p and RawImages prepared for another
\* model.
Images(p) ==
    {Bitmap(b) : b \in Bitmaps}
    \cup {RawImage(devices[q], Bitmap(b)).raw :
             q \in {p, OtherModel(p)} \cap VisualPIDs, b \in {1, MaxLen}}

vars == <<reg, unit, attached, opened, hist, stream, live, d, pc, si, rc, nd, log,
          ret>>

NoDeck == [desc |-> ProductIDAny, serial |-> NoSerial, dev |-> 0, buf |-> <<>>]
NoSetImage == [key |-> 0, page |-> 0, data |-> <<>>, off |-> 0, pkt |-> <<>>]
\* The locals of Reconnect: err, and whether ctx is cancelled.  Kept beside
\* them for the properties: the turns of the loop completed (cycles), those
\* of them that did not find the serial (absent), what the last turn met
\* (last: "none", "absent" or "failed"), and the successful Reconnects made
\* so far (done).
NoReconnect == [err |-> NoErr, cycles |-> 0, cancelled |-> FALSE,
                absent |-> 0, last |-> "none", done |-> 0]
NoNewDeck == [deck |-> NoDeck, arg |-> NoSerial, at |-> "none", caller |-> "none"]
\* What is remembered of a handle: its first transport call, whether an
\* image report was written on it, whether a SetImage on it was given up
\* after its first report, and how often it was closed.
NoHist == [first |-> "none", imaged |-> FALSE, aborted |-> FALSE, closes |-> 0]

Ret(op, err, val) == [op |-> op, err |-> err, val |-> val]

\* One transport call: the handle, the method, what the call is for, the
\* buffer handed over, whether it succeeded, and for an image Write the
\* number n of payload bytes the chunk carries.
Call(h, op, kind, data, ok, n) ==
    [h |-> h, op |-> op, kind |-> kind, data |-> data, ok |-> ok, n |-> n]

Desc == devices[d.desc]

\* What a transport call can return: it cannot succeed on an unplugged unit.
Outcomes == IF attached THEN {TRUE, FALSE} ELSE {FALSE}

\* The El Gato devices on the bus, in enumeration order: those enumerated
\* ahead of the unit, which stay plugged, then the unit while it is plugged.
Bus == unit.ahead \o (IF attached THEN <<unit>> ELSE <<>>)

\* hid.Enumerate(vidElGato, pid, ...): the device infos passed to the
\* callback, in bus order.
Enumerate(pid) ==
    SelectSeq(Bus, LAMBDA info : pid = ProductIDAny \/ info.pid = pid)

\* An enumeration loop that compares the serial of every El Gato device,
\* whatever its model.
FoundAnyModel(deck) ==
    \E i \in 1..Len(Enumerate(ProductIDAny)) :
        Enumerate(ProductIDAny)[i].serial = deck.serial

\* The enumeration loop shared by checkConnected and Reconnect: TRUE when
\* a device of the deck's model with the deck's cached serial is enumerated.
Found(deck) ==
    \E i \in 1..Len(Enumerate(deck.desc)) :
        Enumerate(deck.desc)[i].serial = deck.serial

\* An error path that hands the transport error on without enumerating.
checkConnectedRaw(deck, err) == err

\* (*Deck).checkConnected
checkConnected(deck, err) ==
    IF err = NoErr THEN NoErr
    ELSE IF Found(deck) THEN err
    ELSE ErrNotConnected

\* The error of a transport call.
TransportErr(ok) == IF ok THEN NoErr ELSE ErrTransport

\* hist after one more transport call.
Touch(hs, c) ==
    [hs EXCEPT ![c.h] =
        [first |-> IF @.first = "none" THEN c.kind ELSE @.first,
         imaged |-> @.imaged \/ c.kind = "image",
         aborted |-> @.aborted,
         closes |-> @.closes + (IF c.op = "Close" THEN 1 ELSE 0)]]

RECURSIVE Record(_, _)
\* hist after the transport calls of calls, in order.
Record(hs, calls) ==
    IF calls = <<>> THEN hs
    ELSE Record(Touch(hs, Head(calls)), Tail(calls))

\* The done flag as the unit reads it from an image report.
DoneFlag(pkt) == IF pkt[2] = 1 THEN pkt[5] ELSE pkt[4]

\* The unit's key streamer after one transport call: a successful image
\* report that is not the last leaves a partial image, the last one and a
\* successful key-stream reset clear it.
StreamAfter(st, c) ==
    IF ~c.ok THEN st
    ELSE IF c.kind = "image" THEN (IF DoneFlag(c.data) = 1 THEN 0 ELSE c.h)
    ELSE IF c.kind = "resetKeyStream" THEN 0
    ELSE st

RECURSIVE Streamed(_, _)
Streamed(st, calls) ==
    IF calls = <<>> THEN st
    ELSE Streamed(StreamAfter(st, Head(calls)), Tail(calls))

Init ==
    /\ reg = Slices
    /\ unit \in [pid : PIDs, serial : {UnitSerial}, ahead : {<<>>}]
    /\ attached \in BOOLEAN
    /\ opened = 0
    /\ hist = [h \in 1..MaxHandles |-> NoHist]
    /\ stream = 0
    /\ live = FALSE
    /\ d = NoDeck
    /\ pc = "idle"
    /\ si = NoSetImage
    /\ rc = NoReconnect
    /\ nd = NoNewDeck
    /\ log = <<>>
    /\ ret = Ret("none", NoErr, <<>>)

(***************************************************************************)
(* The bus: the unit is plugged and unplugged at any time.                 *)
(***************************************************************************)
Plug ==
    /\ ~attached
    /\ attached' = TRUE
    /\ UNCHANGED <<reg, unit, opened, hist, stream, live, d, pc, si, rc, nd, log, ret>>

Unplug ==
    /\ attached
    /\ attached' = FALSE
    /\ UNCHANGED <<reg, unit, opened, hist, stream, live, d, pc, si, rc, nd, log, ret>>

(***************************************************************************)
(* Key, Len.                                                               *)
(***************************************************************************)
\* The bounds test of Key and SetImage: TRUE when the index is rejected.
OutOfBounds(i, n) == i < 0 \/ n < i

\* Rows and columns a caller passes: the edges of the grid and one step
\* beyond them on either side.
RowInputs(dsc) == {-1, 0, dsc.rows - 1, dsc.rows, dsc.rows + 1}
ColInputs(dsc) == {-1, 0, dsc.cols - 1, dsc.cols, dsc.cols + 1}

\* (*Deck).Len
DeckLen(dsc) == dsc.rows * dsc.cols

\* (*Deck).Key: the key number, or a panic.
Key(row, col) ==
    /\ pc = "idle" /\ live
    /\ ret' = IF OutOfBounds(row, Desc.rows)
              THEN Ret("Key", "panic: row out of bounds", <<row, col>>)
              ELSE IF OutOfBounds(col, Desc.cols)
              THEN Ret("Key", "panic: column out of bounds", <<row, col>>)
              ELSE Ret("Key", NoErr, <<row, col, row * Desc.cols + col>>)
    /\ log' = <<>>
    /\ UNCHANGED <<reg, unit, attached, opened, hist, stream, live, d, pc, si, rc, nd>>

(***************************************************************************)
(* SetImage.  SetImageCall runs the function up to the head of its loop,   *)
(* SetImageChunk is one iteration of the loop: read, fill the header,      *)
(* write, and return when the write failed or the payload is exhausted.    *)
(***************************************************************************)
\* Length of an image report in the model (see BodyCap).
ReportLen(dsc) == Len(dsc.imageHeader) + BodyCap

SetImageCall(row, col, img) ==
    /\ pc = "idle" /\ live
    /\ log' = <<>>
    /\ IF OutOfBounds(row, Desc.rows)
       THEN /\ ret' = Ret("SetImage", "row out of bounds", <<row, col>>)
            /\ UNCHANGED <<pc, si>>
       ELSE IF OutOfBounds(col, Desc.cols)
       THEN /\ ret' = Ret("SetImage", "column out of bounds", <<row, col>>)
            /\ UNCHANGED <<pc, si>>
       ELSE LET key == row * Desc.cols + col
                r == RawImage(Desc, img)
            IN  IF r.err # NoErr
                THEN /\ ret' = Ret("SetImage", r.err, <<row, col>>)
                     /\ UNCHANGED <<pc, si>>
                ELSE IF Len(r.raw.data) # 0
                THEN /\ si' = [key |-> key, page |-> 0,
                               data |-> r.raw.data, off |-> 0,
                               pkt |-> Copy(Zeros(ReportLen(Desc)),
                                            reg[d.desc].imageHeader)]
                     /\ pc' = "SetImage"
                     /\ ret' = Ret("SetImage", "running",
                                   <<row, col, r.raw.data, img>>)
                ELSE /\ ret' = Ret("SetImage", NoErr,
                                   <<row, col, r.raw.data, img>>)
                     /\ UNCHANGED <<pc, si>>
    /\ UNCHANGED <<reg, unit, attached, opened, hist, stream, live, d, rc, nd>>

\* (*Deck).RawImage called by the program: ret.val is the image handed in
\* and, when there is no error, the *RawImage returned.
DoRawImage(img) ==
    /\ pc = "idle" /\ live
    /\ LET r == RawImage(Desc, img)
       IN  ret' = Ret("RawImage", r.err,
                      IF r.err = NoErr THEN <<img, r.raw>> ELSE <<img>>)
    /\ log' = <<>>
    /\ UNCHANGED <<reg, unit, attached, opened, hist, stream, live, d, pc, si, rc,
                   nd>>

\* image.Rectangle{Min, Max} and its methods Dx, Dy and Add.
Rectangle(min, max) == [Min |-> min, Max |-> max]
Dx(r) == r.Max[1] - r.Min[1]
Dy(r) == r.Max[2] - r.Min[2]
Add(r, p) ==
    Rectangle(<<r.Min[1] + p[1], r.Min[2] + p[2]>>,
              <<r.Max[1] + p[1], r.Max[2] + p[2]>>)

\* (*device).bounds
bounds(dsc) == Rectangle(<<0, 0>>, dsc.keySize)

\* a / b on Go ints: the quotient truncated toward zero.
Quo(a, b) == IF a >= 0 THEN a \div b ELSE -((-a) \div b)

\* A scaler that stretches every source over the whole key.
keepAspectRatioStretched(b, sb) == b

\* keepAspectRatio(dst, src), b the bounds of dst and sb those of src.
keepAspectRatio(b, sb) ==
    IF Dx(sb) = Dy(sb) THEN b
    ELSE LET dx == IF Dx(sb) < Dy(sb)
                   THEN Quo(Dx(sb) * b.Max[1], Dy(sb)) ELSE b.Max[1]
             dy == IF Dx(sb) < Dy(sb)
                   THEN b.Max[2] ELSE Quo(Dy(sb) * b.Max[2], Dx(sb))
         IN  Add(Rectangle(<<0, 0>>, <<dx, dy>>),
                 <<Quo(Dx(b) - dx, 2), Quo(Dy(b) - dy, 2)>>)

\* Widths and heights of the sources: small ones, and those about the side
\* s of a key.
Sides(s) == (1..MaxSide) \cup {s - 1, s, s + 1, 2 * s}

\* if img.Bounds() != d.desc.bounds() { ... keepAspectRatio(dst, img) ... }
\* in RawImage, for a source of w by h pixels: ret.val is <<w, h>> and the
\* rectangle the source is scaled into.
Scale(w, h) ==
    /\ pc = "idle" /\ live /\ Desc.visual
    /\ Rectangle(<<0, 0>>, <<w, h>>) # bounds(Desc)
    /\ ret' = Ret("keepAspectRatio", NoErr,
                  <<w, h, keepAspectRatio(bounds(Desc),
                                          Rectangle(<<0, 0>>, <<w, h>>))>>)
    /\ log' = <<>>
    /\ UNCHANGED <<reg, unit, attached, opened, hist, stream, live, d, pc, si, rc,
                   nd>>

\* The button image handed to the transform: it has the bounds of the key,
\* here a square of MaxSide pixels with origin (0, 0).
KeyBounds == Rectangle(<<0, 0>>, <<MaxSide, MaxSide>>)

\* p.In(r) for a point p
In(p, r) ==
    /\ r.Min[1] <= p[1] /\ p[1] < r.Max[1]
    /\ r.Min[2] <= p[2] /\ p[2] < r.Max[2]

\* img.At(x, y) on the source image of bounds b: its pixels are numbered
\* from 1 row by row; outside its bounds an image of the standard library
\* answers the zero colour, 0.
PixelAt(b, p) ==
    IF In(p, b) THEN 1 + (p[1] - b.Min[1]) + Dx(b) * (p[2] - b.Min[2]) ELSE 0

\* t.At: the source coordinate read for (x, y).
tAt(b, x, y) == <<y - b.Min[2] + b.Min[1], x - b.Min[1] + b.Min[2]>>

\* r180.At: the source coordinate read for (x, y).
r180At(b, x, y) == <<Dx(b) - x + 2 * b.Min[1], Dy(b) - y + 2 * b.Min[2]>>

\* d.desc.transform(img).At(x, y): the source coordinate read.
SourceAt(dsc, b, x, y) ==
    IF dsc.transform = "transpose" THEN tAt(b, x, y) ELSE r180At(b, x, y)

\* The encoder reads the pixel (x, y) of d.desc.transform(img): ret.val is
\* <<x, y>>, the source coordinate read and the pixel found there.
TransformAt(x, y) ==
    /\ pc = "idle" /\ live /\ Desc.visual
    /\ ret' = Ret("At", NoErr,
                  <<x, y, SourceAt(Desc, KeyBounds, x, y),
                    PixelAt(KeyBounds, SourceAt(Desc, KeyBounds, x, y))>>)
    /\ log' = <<>>
    /\ UNCHANGED <<reg, unit, attached, opened, hist, stream, live, d, pc, si, rc,
                   nd>>

\* The encoder reads every pixel of d.desc.transform(img), row by row:
\* ret.val is the sequence of source pixels it gets.
Transform ==
    /\ pc = "idle" /\ live /\ Desc.visual
    /\ ret' = Ret("transform", NoErr,
                  [i \in 1..(MaxSide * MaxSide) |->
                      PixelAt(KeyBounds,
                              SourceAt(Desc, KeyBounds, (i - 1) % MaxSide,
                                       (i - 1) \div MaxSide))])
    /\ log' = <<>>
    /\ UNCHANGED <<reg, unit, attached, opened, hist, stream, live, d, pc, si, rc,
                   nd>>

\* A read that starts at the head of the payload on every call.
ReadIntoRewound(pkt, hlen, data, off, n) ==
    CopyAt(pkt, hlen, SubSeq(data, 1, n))

\* n, err := buf.Read(pkt[len(d.desc.imageHeader):]): the packet after the
\* read; only the first n body bytes are overwritten.
ReadInto(pkt, hlen, data, off, n) ==
    CopyAt(pkt, hlen, SubSeq(data, off + 1, off + n))

\* A read that leaves the last byte of p unused.
ReadLenShort(cap, remaining) == Min(cap - 1, remaining)

\* The n of n, err := buf.Read(p) on a bytes.Reader: as many bytes as p
\* holds, or the bytes that remain when they are fewer.
ReadLen(cap, remaining) == Min(cap, remaining)

\* A done flag that looks at the length of the chunk only.
DoneShortOnly(remaining, n, cap) == n < cap

\* done := buf.Len() == 0 || n < d.desc.imgReportLen-len(d.desc.imageHeader)
Done(remaining, n, cap) == remaining = 0 \/ n < cap

\* A packet buffer that is the registry's header slice itself.
TemplateAliased(header, filled) == filled

\* pkt := make([]byte, d.desc.imgReportLen); copy(pkt, d.desc.imageHeader):
\* the packet is an array of its own, so the registry's header after the
\* header of the packet was filled in is the header as it was.
Template(header, filled) == header

SetImageChunk ==
    /\ pc = "SetImage"
    /\ \E ok \in Outcomes :
        LET hlen == Len(Desc.imageHeader)
            cap == ReportLen(Desc) - hlen
            n == ReadLen(cap, Len(si.data) - si.off)
            off == si.off + n
            done == Done(Len(si.data) - off, n, cap)
            body == ReadInto(si.pkt, hlen, si.data, si.off, n)
            pkt == CopyAt(body, 0,
                          fillHeader(Desc, SubSeq(body, 1, hlen),
                                     si.key, si.page, n, done))
            call == Call(d.dev, "Write", "image", pkt, ok, n)
        IN  /\ log' = Append(log, call)
            /\ reg' = [reg EXCEPT ![d.desc].imageHeader =
                                      Template(@, SubSeq(pkt, 1, hlen))]
            /\ hist' = [Touch(hist, call) EXCEPT
                           ![d.dev].aborted = @ \/ (~ok /\ si.page > 0)]
            /\ stream' = StreamAfter(stream, call)
            /\ IF ~ok
               THEN /\ ret' = Ret("SetImage",
                                  checkConnected(d, ErrTransport), ret.val)
                    /\ pc' = "idle"
                    /\ si' = NoSetImage
               ELSE IF Len(si.data) - off # 0
               THEN /\ si' = [si EXCEPT !.pkt = pkt, !.off = off,
                                        !.page = @ + 1]
                    /\ UNCHANGED <<pc, ret>>
               ELSE /\ pc' = "idle"
                    /\ si' = NoSetImage
                    /\ ret' = Ret("SetImage", NoErr, ret.val)
    /\ UNCHANGED <<unit, attached, opened, live, d, rc, nd>>

(***************************************************************************)
(* Feature-report commands.                                                *)
(***************************************************************************)
\* A command buffer that is the prefix alone, neither sized nor padded.
CommandUnpadded(buf, n, prefix) == prefix

\* A zero that leaves the bytes as they are.
zeroKept(b) == b

\* zero(b): every byte of b set to 0.
zero(b) == [i \in 1..Len(b) |-> 0]

\* buf := d.buf[:n]; zero(buf); copy(buf, prefix), on the scratch buffer
\* buf of the deck.
Command(buf, n, prefix) == Copy(zero(SubSeq(buf, 1, n)), prefix)

\* d.buf after the slice d.buf[:len(b)] was rewritten to b.
Scratch(buf, b) == CopyAt(buf, 0, b)

Percents == {-1, 0, 1, 100, 101}

\* TRUE when SetBrightness rejects the percentage.
OutOfRange(percent) == percent < 0 \/ 100 < percent

\* A ResetKeyStream that returns without sending its report.
ResetKeyStreamSkipped(deck, ok) ==
    [err |-> NoErr, calls |-> <<>>, buf |-> deck.buf]

\* A ResetKeyStream that sends its report whatever the model.
ResetKeyStreamAlways(deck, ok) ==
    LET buf == Command(deck.buf, devices[deck.desc].payloadLen,
                       devices[deck.desc].resetKeyStream)
    IN  [err |-> TransportErr(ok),
         calls |-> <<Call(deck.dev, "SendFeatureReport",
                          "resetKeyStream", buf, ok, 0)>>,
         buf |-> Scratch(deck.buf, buf)]

\* A ResetKeyStream that sends its report a second time when the first
\* attempt failed.
ResetKeyStreamRetried(deck, ok) ==
    IF ~devices[deck.desc].visual
    THEN [err |-> NoErr, calls |-> <<>>, buf |-> deck.buf]
    ELSE LET buf == Command(deck.buf, devices[deck.desc].payloadLen,
                            devices[deck.desc].resetKeyStream)
             call == Call(deck.dev, "SendFeatureReport", "resetKeyStream",
                          buf, ok, 0)
         IN  [err |-> TransportErr(ok),
              calls |-> IF ok THEN <<call>> ELSE <<call, call>>,
              buf |-> Scratch(deck.buf, buf)]

\* (*Deck).ResetKeyStream on deck, with the outcome ok of its transport
\* call: the error returned, the calls made and the deck's buffer afterwards.
ResetKeyStream(deck, ok) ==
    IF ~devices[deck.desc].visual
    THEN [err |-> NoErr, calls |-> <<>>, buf |-> deck.buf]
    ELSE LET buf == Command(deck.buf, devices[deck.desc].payloadLen,
                            devices[deck.desc].resetKeyStream)
         IN  [err |-> TransportErr(ok),
              calls |-> <<Call(deck.dev, "SendFeatureReport",
                               "resetKeyStream", buf, ok, 0)>>,
              buf |-> Scratch(deck.buf, buf)]

DoResetKeyStream ==
    /\ pc = "idle" /\ live
    /\ \E ok \in Outcomes :
        LET r == ResetKeyStream(d, ok)
        IN  /\ ret' = Ret("ResetKeyStream", r.err, <<>>)
            /\ log' = r.calls
            /\ d' = [d EXCEPT !.buf = r.buf]
            /\ hist' = Record(hist, r.calls)
            /\ stream' = Streamed(stream, r.calls)
    /\ UNCHANGED <<reg, unit, attached, opened, live, pc, si, rc, nd>>

\* (*Deck).Reset
Reset ==
    /\ pc = "idle" /\ live
    /\ IF ~Desc.visual
       THEN /\ ret' = Ret("Reset", NoErr, <<>>)
            /\ log' = <<>>
            /\ UNCHANGED <<d, hist>>
       ELSE \E ok \in Outcomes :
            LET buf == Command(d.buf, Desc.payloadLen, Desc.reset)
                call == Call(d.dev, "SendFeatureReport", "reset", buf, ok, 0)
            IN  /\ log' = <<call>>
                /\ d' = [d EXCEPT !.buf = Scratch(d.buf, buf)]
                /\ hist' = Touch(hist, call)
                /\ ret' = Ret("Reset", checkConnected(d, TransportErr(ok)), <<>>)
    /\ UNCHANGED <<reg, unit, attached, opened, stream, live, pc, si, rc, nd>>

\* A brightness report with the percentage on the last byte of the prefix.
BrightnessReportEarly(buf, dsc, percent) ==
    SetByte(Command(buf, dsc.payloadLen, dsc.brightness),
            Len(dsc.brightness) - 1, Byte(percent))

\* The buffer SetBrightness sends: the prefix, zero-padded to payloadLen,
\* with buf[len(d.desc.brightness)] = byte(percent).
BrightnessReport(buf, dsc, percent) ==
    SetByte(Command(buf, dsc.payloadLen, dsc.brightness),
            Len(dsc.brightness), Byte(percent))

\* (*Deck).SetBrightness
SetBrightness(percent) ==
    /\ pc = "idle" /\ live
    /\ IF ~Desc.visual
       THEN /\ ret' = Ret("SetBrightness", NoErr, <<percent>>)
            /\ log' = <<>>
            /\ UNCHANGED <<d, hist>>
       ELSE IF OutOfRange(percent)
       THEN /\ ret' = Ret("SetBrightness", "brightness out of range", <<percent>>)
            /\ log' = <<>>
            /\ UNCHANGED <<d, hist>>
       ELSE \E ok \in Outcomes :
            LET buf == BrightnessReport(d.buf, Desc, percent)
                call == Call(d.dev, "SendFeatureReport", "brightness",
                             buf, ok, 0)
            IN  /\ log' = <<call>>
                /\ d' = [d EXCEPT !.buf = Scratch(d.buf, buf)]
                /\ hist' = Touch(hist, call)
                /\ ret' = Ret("SetBrightness",
                              checkConnected(d, TransportErr(ok)), <<percent>>)
    /\ UNCHANGED <<reg, unit, attached, opened, stream, live, pc, si, rc, nd>>

(***************************************************************************)
(* Serial.                                                                 *)
(***************************************************************************)
\* The version string of the unit's firmware ("1.0").
UnitFirmware == <<49, 46, 48>>

\* What the unit answers to a firmware query of n bytes.
FirmwareResponse(dsc, n) ==
    CopyAt(Copy(Zeros(n), dsc.firmware), dsc.firmwareOffset, UnitFirmware)

\* payloadLen of Serial: d.desc.serialPayloadLen, d.desc.payloadLen if zero.
SerialLen(dsc) ==
    IF dsc.serialPayloadLen = 0 THEN dsc.payloadLen ELSE dsc.serialPayloadLen

\* The request of Serial and Firmware: zero(buf); copy(buf, prefix);
\* buf[len(prefix)] = byte(n).
Query(buf, n, prefix) ==
    SetByte(Command(buf, n, prefix), Len(prefix), Byte(n))

\* What the buffer of a GetFeatureReport can hold when the call returns:
\* the request untouched, the unit's answer, or bytes without a NUL from
\* the offset to the end of the buffer.
Answers(req, answer, offset) ==
    {req, answer,
     [i \in 1..Len(req) |-> IF i <= offset THEN answer[i] ELSE 88]}

\* A search for the NUL that never finds it.
IndexNulNone(b) == -1

\* bytes.IndexByte(b, 0): zero-based index of the first NUL, -1 if none.
IndexNul(b) ==
    IF \E i \in 1..Len(b) : b[i] = 0
    THEN (CHOOSE i \in 1..Len(b) :
              b[i] = 0 /\ \A j \in 1..(i - 1) : b[j] # 0) - 1
    ELSE -1

\* What the unit answers to a serial query of n bytes: the report
\* identifier, then its serial number at the model's offset, NUL padded.
SerialResponse(dsc, n) ==
    CopyAt(Copy(Zeros(n), dsc.serial), dsc.serialOffset, unit.serial)

\* The buffer after the serial query NewDeck makes: the unit's answer, or
\* the request when the call fails.
SerialAnswer(deck, ok) ==
    IF ok THEN SerialResponse(devices[deck.desc], SerialLen(devices[deck.desc]))
    ELSE Query(deck.buf, SerialLen(devices[deck.desc]),
               devices[deck.desc].serial)

\* The tail of Serial and Firmware: buf = buf[offset:], then the bytes up
\* to the first NUL with the connectivity-checked error, or all of buf
\* with a nil error when it holds no NUL.
StringAt(deck, buf, offset, err) ==
    LET tail == SubSeq(buf, offset + 1, Len(buf))
        idx == IndexNul(tail)
    IN  IF idx < 0
        THEN [val |-> tail, err |-> NoErr]
        ELSE [val |-> SubSeq(tail, 1, idx), err |-> checkConnected(deck, err)]

\* A Serial that queries the device whatever the Deck has cached.
SerialAlways(deck, ok, got) ==
    LET dsc == devices[deck.desc]
        r == StringAt(deck, got, dsc.serialOffset, TransportErr(ok))
    IN  [val |-> r.val, err |-> r.err,
         calls |-> <<Call(deck.dev, "GetFeatureReport", "serial",
                          Query(deck.buf, SerialLen(dsc), dsc.serial), ok, 0)>>,
         buf |-> Scratch(deck.buf, got)]

\* (*Deck).Serial on deck, with the outcome ok of its transport call and
\* the bytes got the buffer holds when the call returns: the string and
\* error returned, the calls made, the deck's buffer afterwards.
Serial(deck, ok, got) ==
    IF deck.serial # NoSerial
    THEN [val |-> deck.serial, err |-> NoErr, calls |-> <<>>, buf |-> deck.buf]
    ELSE LET dsc == devices[deck.desc]
             req == Query(deck.buf, SerialLen(dsc), dsc.serial)
             r == StringAt(deck, got, dsc.serialOffset, TransportErr(ok))
         IN  [val |-> r.val, err |-> r.err,
              calls |-> <<Call(deck.dev, "GetFeatureReport", "serial",
                               req, ok, 0)>>,
              buf |-> Scratch(deck.buf, got)]

DoSerial ==
    /\ pc = "idle" /\ live
    /\ \E ok \in Outcomes :
       \E got \in Answers(Query(d.buf, SerialLen(Desc), Desc.serial),
                          SerialResponse(Desc, SerialLen(Desc)),
                          Desc.serialOffset) :
        LET r == Serial(d, ok, got)
        IN  /\ ret' = Ret("Serial", r.err, r.val)
            /\ log' = r.calls
            /\ d' = [d EXCEPT !.buf = r.buf]
            /\ hist' = Record(hist, r.calls)
    /\ UNCHANGED <<reg, unit, attached, opened, stream, live, pc, si, rc, nd>>

\* (*Deck).Firmware
Firmware ==
    /\ pc = "idle" /\ live
    /\ \E ok \in Outcomes :
       \E got \in Answers(Query(d.buf, Desc.payloadLen, Desc.firmware),
                          FirmwareResponse(Desc, Desc.payloadLen),
                          Desc.firmwareOffset) :
        LET req == Query(d.buf, Desc.payloadLen, Desc.firmware)
            call == Call(d.dev, "GetFeatureReport", "firmware", req, ok, 0)
            r == StringAt(d, got, Desc.firmwareOffset, TransportErr(ok))
        IN  /\ ret' = Ret("Firmware", r.err, r.val)
            /\ log' = <<call>>
            /\ d' = [d EXCEPT !.buf = Scratch(d.buf, got)]
            /\ hist' = Touch(hist, call)
    /\ UNCHANGED <<reg, unit, attached, opened, stream, live, pc, si, rc, nd>>

(***************************************************************************)
(* KeyStates.                                                              *)
(***************************************************************************)
\* Input reports the unit answers a Read with: no key pressed, the first
\* key, the last key, the last key with a non-zero byte before the offset,
\* and a first key whose byte is 2.
KeyReports(dsc) ==
    LET n == dsc.keyStatesOffset + DeckLen(dsc)
    IN  {Zeros(n),
         SetByte(Zeros(n), dsc.keyStatesOffset, 1),
         SetByte(Zeros(n), n - 1, 1),
         SetByte(SetByte(Zeros(n), 0, 1), n - 1, 1),
         SetByte(Zeros(n), dsc.keyStatesOffset, 2)}

\* *(*[]bool)(unsafe.Pointer(&buf)): the bytes of buf read as bools.  A
\* byte 0 is false and a byte 1 is true; any other byte is not a value of
\* type bool, and whether the program takes it for true (a branch on it) or
\* not (a comparison with true) is left to the build: odd.
AsBools(b, odd) ==
    [i \in 1..Len(b) |->
        IF b[i] = 0 THEN FALSE ELSE IF b[i] = 1 THEN TRUE ELSE odd]

\* (*Deck).KeyStates; ret.val is the buffer after the Read and the states
\* returned.
KeyStates ==
    /\ pc = "idle" /\ live
    /\ \E ok \in Outcomes, report \in KeyReports(Desc), odd \in BOOLEAN :
        LET n == Desc.keyStatesOffset + DeckLen(Desc)
            call == Call(d.dev, "Read", "keyStates", Zeros(n), ok, 0)
        IN  /\ log' = <<call>>
            /\ hist' = Touch(hist, call)
            /\ ret' = IF ~ok
                      THEN Ret("KeyStates", checkConnected(d, ErrTransport),
                               <<report, <<>>>>)
                      ELSE Ret("KeyStates", NoErr,
                               <<report,
                                 AsBools(SubSeq(report,
                                                Desc.keyStatesOffset + 1, n),
                                         odd)>>)
    /\ UNCHANGED <<reg, unit, attached, opened, stream, live, d, pc, si, rc, nd>>

(***************************************************************************)
(* NewDeck, Close.  NewDeck is called by the program (DoNewDeck) and by    *)
(* Reconnect (ReconnectOpen).  NewDeckOpen runs it up to the handle being  *)
(* opened, NewDeckReset is its key-stream reset and NewDeckSerial its      *)
(* serial query; NewDeckReturn hands the result to the caller.             *)
(***************************************************************************)
\* The product identifier NewDeck settles on: with hid.ProductIDAny, that
\* of the first enumerated device when the serial is empty or is that
\* device's (the callback stops the enumeration after one device).
Resolve(pid, serial) ==
    IF pid = ProductIDAny /\ Enumerate(ProductIDAny) # <<>>
       /\ (serial = NoSerial \/ serial = Enumerate(ProductIDAny)[1].serial)
    THEN Enumerate(ProductIDAny)[1].pid
    ELSE pid

\* hid.Open(vidElGato, pid, serial), hid.OpenFirst(vidElGato, pid): the
\* devices the call can open, in bus order; it opens the first.
Openable(pid, serial) ==
    SelectSeq(Enumerate(pid),
              LAMBDA info : serial = NoSerial \/ info.serial = serial)

\* A NewDeck that looks its argument up only after the enumeration.
RefusalLate(pid, serial, openOk) ==
    IF Resolve(pid, serial) \notin PIDs
    THEN "not a known deck device identifier"
    ELSE "open failed"

\* The error NewDeck returns before it opens a handle, NoErr if it opens one.
\* A device enumerated ahead of the unit is held by another process: opening
\* it fails.
Refusal(pid, serial, openOk) ==
    IF pid \notin PIDs /\ pid # ProductIDAny
    THEN "not a valid deck device identifier"
    ELSE IF Resolve(pid, serial) \notin PIDs
    THEN "not a known deck device identifier"
    ELSE IF ~(openOk /\ Openable(Resolve(pid, serial), serial) # <<>>
              /\ Openable(Resolve(pid, serial), serial)[1] = unit)
    THEN "open failed"
    ELSE NoErr

\* d := &Deck{desc: &desc, serial: serial, dev: dev, buf: make(...)}
Deck(pid, serial, h) ==
    [desc |-> pid, serial |-> serial, dev |-> h,
     buf |-> Zeros(bufLen(devices[pid]))]

\* A Reconnect that leaves the old handle open.
ClosedNever(old, err) == <<>>

\* if err == nil { d.Close() ... }: the transport calls Reconnect makes on
\* the old deck when NewDeck returns err.
Closed(old, err) ==
    IF err = NoErr THEN <<Call(old.dev, "Close", "close", <<>>, TRUE, 0)>>
    ELSE <<>>

\* A Reconnect that stores whatever NewDeck returned.
ReconnectedAlways(old, new, err) == new

\* A Reconnect that does not store the new Deck.
ReconnectedStale(old, new, err) == old

\* if err == nil { ... *d = *_d }: the receiver after NewDeck returned
\* (new, err) to Reconnect.
Reconnected(old, new, err) == IF err = NoErr THEN new ELSE old

\* NewDeck returns (deck, err) after making the transport calls of calls.
\* Returning to Reconnect: on success the old handle is closed and *d is
\* overwritten, on failure the loop goes on with err.
NewDeckReturn(err, deck, calls) ==
    /\ nd' = NoNewDeck
    /\ IF nd.caller = "Reconnect"
       THEN LET made == calls \o Closed(d, err)
            IN  /\ log' = log \o made
                /\ hist' = Record(hist, made)
                /\ stream' = Streamed(stream, made)
                /\ d' = Reconnected(d, deck, err)
                /\ pc' = IF err = NoErr THEN "idle" ELSE "Reconnect"
                /\ rc' = IF err = NoErr
                         THEN [NoReconnect EXCEPT !.done = rc.done + 1]
                         ELSE [rc EXCEPT !.err = err, !.cycles = @ + 1,
                                         !.last = "failed"]
                /\ ret' = IF err = NoErr
                          THEN Ret("Reconnect", NoErr,
                                   <<rc.cycles + 1, rc.absent, "found",
                                     "reconnected">>)
                          ELSE ret
                /\ UNCHANGED live
       ELSE /\ log' = log \o calls
            /\ hist' = Record(hist, calls)
            /\ stream' = Streamed(stream, calls)
            /\ d' = IF err = NoErr THEN deck ELSE NoDeck
            /\ live' = (err = NoErr)
            /\ pc' = "idle"
            /\ ret' = Ret("NewDeck", err, ret.val)
            /\ UNCHANGED rc

\* A NewDeck that leaves the handle open when it fails.
AbandonedOpen(deck, calls) == calls

\* if err != nil { d.dev.Close(); return nil, err }: the transport calls of
\* a NewDeck that fails after the calls of calls on the handle it opened.
Abandoned(deck, calls) ==
    Append(calls, Call(deck.dev, "Close", "close", <<>>, TRUE, 0))

\* NewDeck(pid, serial) called by caller, up to the handle being opened.
NewDeckOpen(pid, serial, caller) ==
    /\ opened < MaxHandles
    /\ \E openOk \in Outcomes :
        LET err == Refusal(pid, serial, openOk)
        IN  IF err # NoErr
            THEN /\ nd' = NoNewDeck
                 /\ UNCHANGED <<opened, hist, stream, live, d>>
                 /\ IF caller = "Reconnect"
                    THEN /\ rc' = [rc EXCEPT !.err = err, !.cycles = @ + 1,
                                             !.last = "failed"]
                         /\ UNCHANGED <<pc, log, ret>>
                    ELSE /\ ret' = Ret("NewDeck", err, <<pid, serial>>)
                         /\ log' = <<>>
                         /\ UNCHANGED <<pc, rc>>
            ELSE /\ opened' = opened + 1
                 /\ nd' = [deck |-> Deck(Resolve(pid, serial), serial, opened + 1),
                           arg |-> serial, at |-> "reset", caller |-> caller]
                 /\ pc' = "NewDeck"
                 /\ IF caller = "Reconnect"
                    THEN UNCHANGED <<log, ret>>
                    ELSE /\ ret' = Ret("NewDeck", "running", <<pid, serial>>)
                         /\ log' = <<>>
                 /\ UNCHANGED <<hist, stream, live, d, rc>>
    /\ UNCHANGED <<reg, unit, attached, si>>

\* err = d.ResetKeyStream(); on an error the handle is closed.
NewDeckReset ==
    /\ pc = "NewDeck" /\ nd.at = "reset"
    /\ \E ok \in Outcomes :
        LET r == ResetKeyStream(nd.deck, ok)
        IN  IF r.err # NoErr
            THEN NewDeckReturn(r.err, NoDeck, Abandoned(nd.deck, r.calls))
            ELSE IF nd.deck.serial # NoSerial
            THEN NewDeckReturn(NoErr, [nd.deck EXCEPT !.buf = r.buf], r.calls)
            ELSE /\ nd' = [nd EXCEPT !.deck.buf = r.buf, !.at = "serial"]
                 /\ log' = log \o r.calls
                 /\ hist' = Record(hist, r.calls)
                 /\ stream' = Streamed(stream, r.calls)
                 /\ UNCHANGED <<live, d, pc, rc, ret>>
    /\ UNCHANGED <<reg, unit, attached, opened, si>>

\* d.serial, err = d.Serial(); on an error the handle is closed.
NewDeckSerial ==
    /\ pc = "NewDeck" /\ nd.at = "serial"
    /\ \E ok \in Outcomes :
        LET s == Serial(nd.deck, ok, SerialAnswer(nd.deck, ok))
        IN  IF s.err # NoErr
            THEN NewDeckReturn(s.err, NoDeck, Abandoned(nd.deck, s.calls))
            ELSE NewDeckReturn(NoErr,
                     [nd.deck EXCEPT !.serial = s.val, !.buf = s.buf], s.calls)
    /\ UNCHANGED <<reg, unit, attached, opened, si>>

PidInputs == {unit.pid, OtherModel(unit.pid), ProductIDAny, UnknownPID}
SerialInputs == {NoSerial, UnitSerial, OtherSerial}

DoNewDeck(pid, serial) ==
    /\ pc = "idle" /\ ~live
    /\ NewDeckOpen(pid, serial, "main")

\* (*Deck).Close; the caller drops the Deck.
Close ==
    /\ pc = "idle" /\ live
    /\ LET call == Call(d.dev, "Close", "close", <<>>, TRUE, 0)
       IN  /\ log' = <<call>>
           /\ hist' = Touch(hist, call)
    /\ ret' = Ret("Close", NoErr, <<>>)
    /\ live' = FALSE
    /\ d' = NoDeck
    /\ UNCHANGED <<reg, unit, attached, opened, stream, pc, si, rc, nd>>

(***************************************************************************)
(* Reconnect.  ReconnectCall enters the loop; each turn of the loop waits  *)
(* in the select for ctx.Done() (ReconnectCancelled) or for the timer      *)
(* (ReconnectAbsent, ReconnectOpen).  When both channels are ready the     *)
(* select takes either.                                                    *)
(***************************************************************************)
ReconnectCall ==
    /\ pc = "idle" /\ live
    /\ pc' = "Reconnect"
    /\ rc' = [NoReconnect EXCEPT !.done = rc.done]
    /\ log' = <<>>
    /\ ret' = Ret("Reconnect", "running", <<>>)
    /\ UNCHANGED <<reg, unit, attached, opened, hist, stream, live, d, si, nd>>

\* The caller's context is cancelled.
Cancel ==
    /\ pc \in {"Reconnect", "NewDeck"} /\ nd.caller # "main" /\ ~rc.cancelled
    /\ rc' = [rc EXCEPT !.cancelled = TRUE]
    /\ UNCHANGED <<reg, unit, attached, opened, hist, stream, live, d, pc, si, nd,
                   log, ret>>

\* A Reconnect that returns nil when it is cancelled.
OnDoneNil(err) == NoErr

\* case <-ctx.Done(): timer.Stop(); return err
OnDone(err) == err

ReconnectCancelled ==
    /\ pc = "Reconnect" /\ rc.cancelled
    /\ ret' = Ret("Reconnect", OnDone(rc.err),
                  <<rc.cycles, rc.absent, rc.last, "cancelled">>)
    /\ pc' = "idle"
    /\ rc' = [NoReconnect EXCEPT !.done = rc.done]
    /\ UNCHANGED <<reg, unit, attached, opened, hist, stream, live, d, si, nd, log>>

\* A turn of the loop that does not find the deck's serial on the bus.
ReconnectAbsent ==
    /\ pc = "Reconnect" /\ rc.cycles < MaxCycles
    /\ ~Found(d)
    /\ rc' = [rc EXCEPT !.err = ErrNotConnected, !.cycles = @ + 1,
                        !.absent = @ + 1, !.last = "absent"]
    /\ UNCHANGED <<reg, unit, attached, opened, hist, stream, live, d, pc, si, nd,
                   log, ret>>

\* A turn of the loop that finds the serial and calls NewDeck.
ReconnectOpen ==
    /\ pc = "Reconnect" /\ rc.cycles < MaxCycles
    /\ Found(d)
    /\ NewDeckOpen(d.desc, d.serial, "Reconnect")

(***************************************************************************)
(* The specifications.                                                     *)
(*                                                                         *)
(* Spec is the life of one Deck from NewDeck on: sessions are opened,      *)
(* closed and reconnected while the unit is plugged and unplugged, and     *)
(* images are streamed to the first key.  SpecImage and SpecCommand start  *)
(* from the Deck a successful NewDeck returns and exercise SetImage and    *)
(* Key, and the feature-report commands, over all their inputs.            *)
(***************************************************************************)
\* Images streamed in Spec: a one-packet and a several-packet payload.
SessionImages == {Bitmap(1), Bitmap(MaxLen)}

Next ==
    \/ Plug
    \/ Unplug
    \/ \E pid \in PidInputs, serial \in SerialInputs : DoNewDeck(pid, serial)
    \/ Close
    \/ \E img \in SessionImages : SetImageCall(0, 0, img)
    \/ SetImageChunk
    \/ NewDeckReset
    \/ NewDeckSerial
    \/ DoResetKeyStream
    \/ ReconnectCall
    \/ Cancel
    \/ ReconnectCancelled
    \/ ReconnectAbsent
    \/ ReconnectOpen

Spec == Init /\ [][Next]_vars

\* The state after a successful NewDeck(unit.pid, serial) on a plugged unit
\* of units, for the serial arguments of serials.
InitAfter(units, serials) ==
    /\ reg = Slices
    /\ unit \in units
    /\ attached = TRUE
    /\ opened = 1
    /\ \E serial \in serials :
        LET r == ResetKeyStream(Deck(unit.pid, serial, 1), TRUE)
            opened1 == [Deck(unit.pid, serial, 1) EXCEPT !.buf = r.buf]
            s == Serial(opened1, TRUE, SerialAnswer(opened1, TRUE))
        IN  /\ d = [Deck(unit.pid, serial, 1) EXCEPT
                        !.serial = s.val, !.buf = s.buf]
            /\ log = r.calls \o s.calls
            /\ hist = Record([h \in 1..MaxHandles |-> NoHist],
                             r.calls \o s.calls)
            /\ ret = Ret("NewDeck", NoErr, <<unit.pid, serial>>)
    /\ stream = 0
    /\ live = TRUE
    /\ pc = "idle"
    /\ si = NoSetImage
    /\ rc = NoReconnect
    /\ nd = NoNewDeck

\* The same for the unit whose serial number is "A".
InitLive(serials) ==
    InitAfter([pid : PIDs, serial : {UnitSerial}, ahead : {<<>>}], serials)

\* The decks of SpecCommand: opened by serial number or as the first unit
\* of the model, on a unit with the serial number "A" or with an empty one.
InitCommand ==
    \/ InitLive({NoSerial, UnitSerial})
    \/ InitAfter([pid : PIDs, serial : {NoSerial}, ahead : {<<>>}], {NoSerial})

\* Reconnect on the Deck of a successful NewDeck, while the unit is plugged
\* and unplugged.
NextReconnect ==
    \/ Plug
    \/ Unplug
    \/ ReconnectCall
    \/ Cancel
    \/ ReconnectCancelled
    \/ ReconnectAbsent
    \/ ReconnectOpen
    \/ NewDeckReset

\* The scheduling the code relies on for Reconnect to return: a select
\* takes each of its ready cases with equal chance, so the case of
\* ctx.Done(), ready in every turn of the loop once the context is
\* cancelled, is taken sooner or later; and the transport call of a NewDeck
\* under way returns.
SpecLive ==
    /\ InitLive({UnitSerial}) /\ [][NextReconnect]_vars
    /\ SF_vars(ReconnectCancelled)
    /\ WF_vars(NewDeckReset)

NextImage ==
    \/ Plug
    \/ Unplug
    \/ \E row \in RowInputs(Desc), col \in ColInputs(Desc) : Key(row, col)
    \/ \E row \in RowInputs(Desc), col \in ColInputs(Desc),
          img \in Images(d.desc) : SetImageCall(row, col, img)
    \/ SetImageChunk

SpecImage == InitLive({UnitSerial}) /\ [][NextImage]_vars

NextCommand ==
    \/ Plug
    \/ Unplug
    \/ DoResetKeyStream
    \/ Reset
    \/ \E percent \in Percents : SetBrightness(percent)
    \/ DoSerial
    \/ Firmware
    \/ KeyStates

SpecCommand == InitCommand /\ [][NextCommand]_vars

\* The device info of an El Gato device of another process.
Bystander(pid, serial) == [pid |-> pid, serial |-> serial]

\* The buses of SpecOpen: the unit, which reports the serial number "A" or
\* an empty one, alone or enumerated after a device of
\* its model, of another model or of a product the registry does not know,
\* whose serial number is "B".
InitOpen ==
    /\ \E pid \in PIDs :
        unit \in [pid : {pid}, serial : {UnitSerial, NoSerial},
                  ahead : {<<>>} \cup {<<Bystander(p, OtherSerial)>> :
                              p \in {pid, OtherModel(pid), UnknownPID}}]
    /\ reg = Slices
    /\ attached \in BOOLEAN
    /\ opened = 0
    /\ hist = [h \in 1..MaxHandles |-> NoHist]
    /\ stream = 0
    /\ live = FALSE
    /\ d = NoDeck
    /\ pc = "idle"
    /\ si = NoSetImage
    /\ rc = NoReconnect
    /\ nd = NoNewDeck
    /\ log = <<>>
    /\ ret = Ret("none", NoErr, <<>>)

\* NewDeck, Serial and Close on a bus the unit shares with another device.
NextOpen ==
    \/ Plug
    \/ Unplug
    \/ \E pid \in PidInputs, serial \in SerialInputs : DoNewDeck(pid, serial)
    \/ NewDeckReset
    \/ NewDeckSerial
    \/ DoSerial
    \/ Close

SpecOpen == InitOpen /\ [][NextOpen]_vars

\* The scaling step of RawImage, for sources of every shape.
NextScale ==
    \E w \in Sides(Desc.keySize[1]), h \in Sides(Desc.keySize[2]) : Scale(w, h)

SpecScale == InitLive({UnitSerial}) /\ [][NextScale]_vars

\* The transform step of RawImage, pixel by pixel and as a whole.
NextTransform ==
    \/ \E x \in 0..(MaxSide - 1), y \in 0..(MaxSide - 1) : TransformAt(x, y)
    \/ Transform

SpecTransform == InitLive({UnitSerial}) /\ [][NextTransform]_vars

\* The images a caller hands over in SpecRaw: those of Images, the
\* *RawImage the last RawImage returned, and that one after a deck of
\* another model has prepared it again.
Sources ==
    Images(d.desc)
    \cup (IF ret.op = "RawImage" /\ ret.err = NoErr
          THEN {ret.val[2],
                RawImage(devices[OtherModel(d.desc)], ret.val[2]).raw}
          ELSE {})

\* RawImage, and SetImage on the keys in the corners, on the Deck of a
\* successful NewDeck.
NextRaw ==
    \/ Plug
    \/ Unplug
    \/ \E img \in Sources : DoRawImage(img)
    \/ \E row \in {0, Desc.rows - 1}, col \in {0, Desc.cols - 1},
          img \in Sources : SetImageCall(row, col, img)
    \/ SetImageChunk

SpecRaw == InitLive({UnitSerial}) /\ [][NextRaw]_vars

\* The decks of SpecConnected: opened by serial number on a unit that shares
\* the bus with a device of its model and another serial number or with a
\* device of another model and its serial number, or opened as the first
\* unit of the model on a unit that reports an empty serial number.
InitConnected ==
    \/ \E pid \in PIDs :
          InitAfter([pid : {pid}, serial : {UnitSerial},
                     ahead : {<<>>, <<Bystander(pid, OtherSerial)>>,
                              <<Bystander(OtherModel(pid), UnitSerial)>>}],
                    {UnitSerial})
    \/ \E pid \in PIDs :
          InitAfter([pid : {pid}, serial : {NoSerial},
                     ahead : {<<>>, <<Bystander(OtherModel(pid), NoSerial)>>}],
                    {NoSerial})

\* The operations that report a transport error, while the unit is plugged
\* and unplugged.
NextConnected ==
    \/ Plug
    \/ Unplug
    \/ DoResetKeyStream
    \/ Reset
    \/ \E percent \in Percents : SetBrightness(percent)
    \/ DoSerial
    \/ Firmware

SpecConnected == InitConnected /\ [][NextConnected]_vars

\* Reconnect on the decks of SpecConnected, on a bus the unit shares with
\* another device.
NextShared ==
    \/ NextReconnect
    \/ NewDeckSerial

SpecShared == InitConnected /\ [][NextShared]_vars

\* A session on an open deck: every operation but Reconnect, NewDeck and
\* Close, while the unit is plugged and unplugged.
NextSession ==
    \/ Plug
    \/ Unplug
    \/ DoResetKeyStream
    \/ Reset
    \/ \E percent \in Percents : SetBrightness(percent)
    \/ DoSerial
    \/ Firmware
    \/ KeyStates
    \/ \E img \in SessionImages : SetImageCall(0, 0, img)
    \/ SetImageChunk

SpecSession == InitCommand /\ [][NextSession]_vars

\* The arguments the header fillers are applied to: keys, pages and chunk
\* lengths below, at and above the widths of their fields.
KeyInputs == {0, 31, 254, 255, 256}
PageInputs == {0, 1, 255, 256, 257, 65535, 65536, 65537}
LenInputs == {0, 1008, 65535, 65536, 70000}

\* d.desc.fillHeader on a fresh copy of the header template; ret.val is
\* the arguments and the header filled in.
FillHeader(key, page, len, done) ==
    /\ pc = "idle" /\ live /\ Desc.visual
    /\ ret' = Ret("fillHeader", NoErr,
                  <<key, page, len, done,
                    fillHeader(Desc, reg[d.desc].imageHeader,
                               key, page, len, done)>>)
    /\ log' = <<>>
    /\ UNCHANGED <<reg, unit, attached, opened, hist, stream, live, d, pc, si,
                   rc, nd>>

NextHeader ==
    \E key \in KeyInputs, page \in PageInputs, len \in LenInputs,
       done \in BOOLEAN : FillHeader(key, page, len, done)

SpecHeader == InitLive({UnitSerial}) /\ [][NextHeader]_vars

\* bmp.Encode of an image that is none of the image types the encoder has
\* a case for, as the images the transforms return are: a file header of
\* 14 bytes, an info header of 40, then 3 bytes a pixel in rows padded to
\* a multiple of 4 bytes.
bmpLen(size) == 14 + 40 + (((3 * size[1] + 3) \div 4) * 4) * size[2]

(***************************************************************************)
(* Properties of SetImage, checked under SpecImage.                        *)
(***************************************************************************)
\* ceil(a / b)
Ceil(a, b) == (a + b - 1) \div b

\* The last operation is a SetImage that passed its argument checks and has
\* a payload: ret.val is <<row, col, payload, img>>.
Streaming == ret.op = "SetImage" /\ Len(ret.val) = 4

\* The page and the key as the unit reads them from an image report.
PageField(pkt) == IF pkt[2] = 1 THEN pkt[3] ELSE pkt[7] + 256 * pkt[8]
KeyField(pkt) == IF pkt[2] = 1 THEN pkt[6] - 1 ELSE pkt[3]

RECURSIVE Carried(_)
\* The first n body bytes of each image report of calls, concatenated.
Carried(calls) ==
    IF calls = <<>> THEN <<>>
    ELSE LET c == Head(calls)
             hlen == Len(c.data) - BodyCap
         IN  SubSeq(c.data, hlen + 1, hlen + c.n) \o Carried(Tail(calls))

\* C1: a SetImage whose payload has L bytes, on a model whose reports have
\* body capacity B, makes exactly ceil(L/B) Write calls and no other
\* transport call; each Write hands over a full report, and the pages are
\* 0, 1, ..., n-1 in this order.  While the transfer runs, and when it is
\* given up, the calls made so far are a prefix of these.
ImagePackets ==
    Streaming =>
        LET L == Len(ret.val[3])
        IN  /\ \A i \in 1..Len(log) :
                /\ log[i].op = "Write"
                /\ Len(log[i].data) = ReportLen(Desc)
                /\ PageField(log[i].data) = i - 1
            /\ Len(log) <= Ceil(L, BodyCap)
            /\ ret.err = NoErr => Len(log) = Ceil(L, BodyCap)
            /\ ret.err = "running" => Len(log) < Ceil(L, BodyCap)

\* A transfer of three packets has returned nil.
ImagePacketsWitness ==
    /\ ret.op = "SetImage" /\ ret.err = NoErr
    /\ Len(ret.val) = 4 /\ Len(ret.val[3]) > 2 * BodyCap
    /\ Len(log) = 3

\* C2: in a successful transfer the done flag is set on the last packet and
\* on no earlier one; this is so too when the payload length is a multiple
\* of the body capacity, where the last packet is a full one and no empty
\* packet follows it.
DoneOnLast ==
    Streaming =>
        LET L == Len(ret.val[3])
        IN  /\ \A i \in 1..Len(log) : DoneFlag(log[i].data) \in {0, 1}
            /\ \A i \in 1..(Len(log) - 1) : DoneFlag(log[i].data) = 0
            /\ ret.err = "running" =>
                   \A i \in 1..Len(log) : DoneFlag(log[i].data) = 0
            /\ (ret.err = NoErr /\ log # <<>>) =>
                   /\ DoneFlag(log[Len(log)].data) = 1
                   /\ log[Len(log)].n >= 1
            /\ (ret.err = NoErr /\ L % BodyCap = 0) =>
                   /\ Len(log) = L \div BodyCap
                   /\ \A i \in 1..Len(log) : log[i].n = BodyCap

\* A payload of twice the body capacity was sent in two full packets.
DoneOnLastWitness ==
    /\ ret.op = "SetImage" /\ ret.err = NoErr
    /\ Len(ret.val) = 4 /\ Len(ret.val[3]) = 2 * BodyCap
    /\ Len(log) = 2 /\ log[2].n = BodyCap
    /\ DoneFlag(log[1].data) = 0 /\ DoneFlag(log[2].data) = 1

\* C3: in every image packet the body bytes after the chunk are zero; the
\* short last packet of a transfer of several packets is zero-padded and
\* holds no byte of the chunk before it.
ZeroPadded ==
    Streaming =>
        \A i \in 1..Len(log) :
            LET hlen == Len(Desc.imageHeader)
            IN  \A j \in (hlen + log[i].n + 1)..Len(log[i].data) :
                    log[i].data[j] = 0

\* C4: the first n body bytes of the packets of a transfer, concatenated in
\* page order, are the encoded payload: nothing is lost, repeated or
\* reordered.  The packets of a transfer that is running or was given up
\* carry a prefix of the payload.
PayloadCarried ==
    Streaming =>
        LET c == Carried(log)
        IN  /\ Len(c) <= Len(ret.val[3])
            /\ c = SubSeq(ret.val[3], 1, Len(c))
            /\ ret.err = NoErr => c = ret.val[3]

\* Two full packets and a last one of a single byte carried the payload.
PayloadCarriedWitness ==
    /\ ret.op = "SetImage" /\ ret.err = NoErr
    /\ Len(ret.val) = 4
    /\ Len(log) = 3 /\ log[3].n = 1
    /\ Carried(log) = ret.val[3]

\* C5: the header of every image packet is the model's template with the
\* protocol fields overwritten and nothing else changed.  First layout:
\* byte 2 the page, byte 4 the done flag, byte 5 the key plus one.  Second
\* layout: byte 2 the key, byte 3 the done flag, bytes 4-5 the chunk length
\* and bytes 6-7 the page, both little-endian.  Bytes 0 and 1 are the
\* template's, and no 0xff placeholder is left.
HeaderFields ==
    Streaming =>
        \A i \in 1..Len(log) :
            LET tmpl == Desc.imageHeader
                hlen == Len(tmpl)
                h == SubSeq(log[i].data, 1, hlen)
                key == ret.val[1] * Desc.cols + ret.val[2]
                done == IF Len(Carried(SubSeq(log, 1, i))) = Len(ret.val[3])
                        THEN 1 ELSE 0
            IN  /\ h[1] = tmpl[1] /\ h[2] = tmpl[2]
                /\ \A j \in 1..hlen : h[j] # 255
                /\ IF Desc.fillHeader = "writeHeaderV1"
                   THEN /\ h[3] = i - 1
                        /\ h[5] = done
                        /\ h[6] = key + 1
                        /\ \A j \in 1..hlen :
                               j \notin {3, 5, 6} => h[j] = tmpl[j]
                   ELSE /\ h[3] = key
                        /\ h[4] = done
                        /\ h[5] = log[i].n % 256
                        /\ h[6] = log[i].n \div 256
                        /\ h[7] = (i - 1) % 256
                        /\ h[8] = (i - 1) \div 256

\* The second packet for a key other than key 0, in the second layout.
HeaderFieldsWitness ==
    /\ ret.op = "SetImage" /\ Len(ret.val) = 4
    /\ Desc.fillHeader = "writeHeaderV2"
    /\ ret.val[1] * Desc.cols + ret.val[2] > 0
    /\ Len(log) >= 2 /\ log[2].ok

\* C6: when the Write of packet k fails, SetImage returns at once, with
\* ErrNotConnected when no unit with the deck's serial is enumerated and
\* with the transport's error otherwise; k+1 Writes were attempted and no
\* packet of a later page is written for that call.
WriteFailureReturns ==
    /\ [](Streaming =>
            \A i \in 1..Len(log) :
                ~log[i].ok =>
                    /\ i = Len(log)
                    /\ PageField(log[i].data) = i - 1
                    /\ pc = "idle"
                    /\ ret.err \in {ErrNotConnected, ErrTransport})
    /\ [][(pc = "SetImage" /\ log' # log /\ ~log'[Len(log')].ok) =>
            /\ pc' = "idle"
            /\ Len(log') = si.page + 1
            /\ ret'.err = IF Found(d) THEN ErrTransport
                          ELSE ErrNotConnected]_vars

\* The Write of page 1 failed on an unplugged unit.
WriteFailureWitness ==
    /\ ret.op = "SetImage" /\ ret.err = ErrNotConnected
    /\ Len(log) = 2 /\ log[1].ok /\ ~log[2].ok

(***************************************************************************)
(* Sessions, checked under Spec.                                           *)
(***************************************************************************)
\* C7: on every handle NewDeck opens for a visual model, by the first call
\* of a program or inside a successful Reconnect, the first transport call
\* is the key-stream reset: a handle with no call yet is one NewDeck has
\* just opened and is about to reset.  No image packet is written on a
\* handle before a reset on it, so a transfer given up in one session is
\* followed by a reset before the first image packet of the next session:
\* the first image packet on a handle finds no partial image in the unit.
ResetFirst ==
    /\ \A h \in 1..opened :
           devices[unit.pid].visual =>
               /\ hist[h].first \in {"none", "resetKeyStream"}
               /\ hist[h].first = "none" =>
                      (pc = "NewDeck" /\ nd.at = "reset" /\ nd.deck.dev = h)
               /\ hist[h].imaged => hist[h].first = "resetKeyStream"
    /\ \A h \in 1..MaxHandles : hist[h].imaged => h <= opened
    /\ (pc = "SetImage" /\ ~hist[d.dev].imaged) => stream = 0

\* A transfer was given up after its first packet on the first handle, and
\* an image packet was written on the second handle, opened later.
ResetFirstWitness ==
    /\ opened >= 2
    /\ hist[1].aborted /\ hist[1].closes > 0
    /\ hist[2].first = "resetKeyStream" /\ hist[2].imaged

(***************************************************************************)
(* Argument checks.                                                        *)
(***************************************************************************)
\* C8: SetImage with a row outside 0..rows-1 or a column outside 0..cols-1
\* returns an out-of-bounds error and makes no transport call; row = rows
\* and col = cols are rejected.
SetImageBoundsChecked ==
    (/\ ret.op = "SetImage"
     /\ \/ ret.val[1] \notin 0..(Desc.rows - 1)
        \/ ret.val[2] \notin 0..(Desc.cols - 1)) =>
        /\ ret.err \in {"row out of bounds", "column out of bounds"}
        /\ log = <<>>

\* The pairs (row, col), among the inputs and one step around the grid,
\* that the bounds test of Key and SetImage lets through.
Accepted(dsc) ==
    {p \in (-1..(dsc.rows + 1)) \X (-1..(dsc.cols + 1)) :
        ~OutOfBounds(p[1], dsc.rows) /\ ~OutOfBounds(p[2], dsc.cols)}

\* C9: Key(row, col) panics or returns row*cols + col; every key number it
\* returns, and every key number in the header of an image packet, is in
\* 0..Len()-1; the accepted pairs map one-to-one onto 0..Len()-1.
KeyNumbering ==
    /\ (ret.op = "Key" /\ ret.err = NoErr) =>
           /\ ret.val[3] = ret.val[1] * Desc.cols + ret.val[2]
           /\ ret.val[3] \in 0..(DeckLen(Desc) - 1)
           /\ \A p \in Accepted(Desc) :
                  p[1] * Desc.cols + p[2] = ret.val[3] =>
                      p = <<ret.val[1], ret.val[2]>>
           /\ \A k \in 0..(DeckLen(Desc) - 1) :
                  \E p \in Accepted(Desc) : p[1] * Desc.cols + p[2] = k
    /\ Streaming =>
           \A i \in 1..Len(log) :
               KeyField(log[i].data) \in 0..(DeckLen(Desc) - 1)

\* C10: SetBrightness with a percentage below 0 or above 100 fails with an
\* out-of-range error and makes no transport call, on every registered
\* model, the control-only ones included.
BrightnessRangeChecked ==
    (ret.op = "SetBrightness" /\ (ret.val[1] < 0 \/ ret.val[1] > 100)) =>
        /\ ret.err = "brightness out of range"
        /\ log = <<>>

(***************************************************************************)
(* Feature-report commands, checked under SpecCommand.                     *)
(***************************************************************************)
\* b is the bytes of prefix followed by zero bytes up to n bytes.
Padded(b, n, prefix) ==
    /\ Len(b) = n
    /\ \A i \in 1..n :
           b[i] = IF i <= Len(prefix) THEN prefix[i] ELSE 0

\* C11: on a visual model SetBrightness(p) with 0 <= p <= 100 makes one
\* transport call and no other: a SendFeatureReport of payloadLen bytes
\* that are the brightness prefix, then the byte p, then zeros to the end.
BrightnessSent ==
    (/\ ret.op = "SetBrightness" /\ Desc.visual
     /\ ret.val[1] \in 0..100) =>
        /\ Len(log) = 1
        /\ log[1].op = "SendFeatureReport"
        /\ log[1].h = d.dev
        /\ Padded(log[1].data, Desc.payloadLen,
                  Desc.brightness \o <<ret.val[1]>>)

\* Full brightness was set on a visual model.
BrightnessSentWitness ==
    /\ ret.op = "SetBrightness" /\ Desc.visual
    /\ ret.val[1] = 100 /\ ret.err = NoErr
    /\ Len(log) = 1 /\ log[1].data[Len(Desc.brightness) + 1] = 100

\* C12: on a control-only model ResetKeyStream, Reset and SetBrightness
\* with a percentage in 0..100 make no transport call and return nil,
\* whether the unit is plugged or not.
ControlOnlyNoOp ==
    (/\ ~Desc.visual
     /\ \/ ret.op \in {"ResetKeyStream", "Reset"}
        \/ ret.op = "SetBrightness" /\ ret.val[1] \in 0..100) =>
        /\ ret.err = NoErr
        /\ log = <<>>

\* ResetKeyStream has returned on a control-only model that is unplugged.
ControlOnlyNoOpWitness ==
    /\ ~Desc.visual /\ ~attached
    /\ ret.op = "ResetKeyStream" /\ ret.err = NoErr /\ log = <<>>

\* C13: on a visual model Reset and ResetKeyStream each make one transport
\* call, a SendFeatureReport of payloadLen bytes: the prefix of the command
\* at offset 0 and zero bytes after it.
ResetReports ==
    (Desc.visual /\ ret.op \in {"ResetKeyStream", "Reset"}) =>
        /\ Len(log) = 1
        /\ log[1].op = "SendFeatureReport"
        /\ log[1].h = d.dev
        /\ Padded(log[1].data, Desc.payloadLen,
                  IF ret.op = "Reset" THEN Desc.reset
                  ELSE Desc.resetKeyStream)

\* Reset was sent on a model whose scratch buffer is longer than its
\* reports.
ResetReportsWitness ==
    /\ Desc.visual /\ ret.op = "Reset" /\ ret.err = NoErr
    /\ Len(d.buf) > Desc.payloadLen
    /\ Len(log) = 1 /\ log[1].ok

\* The string a NUL-terminated answer holds from offset on: the bytes
\* before the first zero byte, all of them when there is none.
Answered(buf, offset) ==
    LET tail == SubSeq(buf, offset + 1, Len(buf))
        nuls == {i \in 1..Len(tail) : tail[i] = 0}
    IN  IF nuls = {} THEN tail
        ELSE SubSeq(tail, 1, (CHOOSE i \in nuls : \A j \in nuls : i <= j) - 1)

\* C14: Serial, on a deck with no cached serial, and Firmware each make one
\* GetFeatureReport; the request is the prefix of the command, then one
\* byte that is the length of the buffer (serialPayloadLen for Serial when
\* it is not zero, payloadLen otherwise), then zeros; the string returned
\* is the answer from the model's offset up to the first NUL, or up to the
\* end of the buffer when there is no NUL.
StringQueries ==
    /\ (ret.op = "Serial" /\ d.serial = NoSerial) =>
           LET n == IF Desc.serialPayloadLen # 0
                    THEN Desc.serialPayloadLen ELSE Desc.payloadLen
           IN  /\ Len(log) = 1
               /\ log[1].op = "GetFeatureReport"
               /\ Padded(log[1].data, n, Desc.serial \o <<n>>)
               /\ ret.val = Answered(SubSeq(d.buf, 1, n), Desc.serialOffset)
    /\ ret.op = "Firmware" =>
           /\ Len(log) = 1
           /\ log[1].op = "GetFeatureReport"
           /\ Padded(log[1].data, Desc.payloadLen,
                     Desc.firmware \o <<Desc.payloadLen>>)
           /\ ret.val = Answered(SubSeq(d.buf, 1, Desc.payloadLen),
                                 Desc.firmwareOffset)

\* Serial has returned a string that runs to the end of the buffer, on the
\* model whose serial query is longer than its other reports.
StringQueriesWitness ==
    /\ ret.op = "Serial" /\ d.serial = NoSerial /\ ret.err = NoErr
    /\ Desc.serialPayloadLen # 0
    /\ Len(log) = 1 /\ log[1].ok
    /\ Len(ret.val) = Desc.serialPayloadLen - Desc.serialOffset

\* C15: when the GetFeatureReport of Serial or Firmware fails, the
\* operation returns an error, ErrNotConnected or the transport's, whatever
\* the buffer holds, a buffer without a NUL after the offset included.
QueryFailureReported ==
    (/\ ret.op \in {"Serial", "Firmware"}
     /\ log # <<>> /\ ~log[1].ok) =>
        ret.err \in {ErrNotConnected, ErrTransport}

\* C16: KeyStates makes one transport Read with a buffer of
\* keyStatesOffset + rows*cols bytes; when the Read succeeds it returns
\* rows*cols booleans, element i true exactly when byte keyStatesOffset+i
\* of the report is not zero; when the Read fails it returns no states and
\* the connectivity-checked error.
KeyStatesRead ==
    ret.op = "KeyStates" =>
        /\ Len(log) = 1
        /\ log[1].op = "Read"
        /\ Len(log[1].data) = Desc.keyStatesOffset + Desc.rows * Desc.cols
        /\ log[1].ok =>
               /\ ret.err = NoErr
               /\ Len(ret.val[2]) = Desc.rows * Desc.cols
               /\ \A i \in 1..Len(ret.val[2]) :
                      ret.val[2][i] =
                          (ret.val[1][Desc.keyStatesOffset + i] # 0)
        /\ ~log[1].ok =>
               /\ ret.val[2] = <<>>
               /\ ret.err \in {ErrNotConnected, ErrTransport}

(***************************************************************************)
(* Reconnect, checked under Spec and SpecLive.                             *)
(***************************************************************************)
\* Reconnect has returned: ret.val is <<cycles, absent, last, how>>.
Returned == ret.op = "Reconnect" /\ ret.err # "running"

\* C17: a Reconnect that finds no unit with the cached serial in any of
\* its checks returns ErrNotConnected when the context is cancelled,
\* whatever the number, zero or more, of delay cycles completed by then.
NeverFoundNotConnected ==
    (/\ Returned /\ ret.val[4] = "cancelled"
     /\ ret.val[2] = ret.val[1]) =>
        ret.err = ErrNotConnected

\* C18: when the serial is absent from the first N-1 checks and at check N
\* it is found and the fresh NewDeck succeeds, Reconnect returns nil after
\* exactly N delay cycles, not earlier; the Deck then holds the handle just
\* opened, and the transport calls of the operations that follow are made
\* on the handle the Deck holds, which is open.
ReconnectsOnFind ==
    /\ [][(/\ pc = "NewDeck" /\ nd.caller = "Reconnect"
           /\ nd' = NoNewDeck
           /\ hist'[nd.deck.dev].closes = 0) =>
              /\ pc' = "idle"
              /\ ret' = Ret("Reconnect", NoErr,
                            <<rc.cycles + 1, rc.absent, "found",
                              "reconnected">>)
              /\ d'.dev = nd.deck.dev]_vars
    /\ [][rc'.absent = rc.absent + 1 =>
              (pc' = "Reconnect" /\ ret'.err = "running")]_vars
    /\ []((live /\ pc \in {"idle", "SetImage"}) =>
              /\ d.dev \in 1..opened
              /\ hist[d.dev].closes = 0
              /\ ret.op \in {"SetImage", "ResetKeyStream"} =>
                     \A i \in 1..Len(log) : log[i].h = d.dev)

\* Reconnect found the serial at its second check and returned nil.
ReconnectsOnFindWitness ==
    /\ Returned /\ ret.err = NoErr
    /\ ret.val = <<2, 1, "found", "reconnected">>
    /\ live /\ d.dev = 2 /\ hist[2].closes = 0

\* C19: a successful Reconnect, one whose NewDeck succeeded, replaces the
\* handle in the caller's Deck: when it returns nil the Deck holds the
\* handle just opened, the handle
\* it held before has been closed exactly once, and its PID and cached
\* serial are what they were; this holds for each of several Reconnects
\* in a row, and no handle is ever closed twice.  (A Reconnect cancelled
\* before its first cycle also returns nil and replaces nothing: C17.)
HandleReplaced ==
    /\ [][(/\ ret.op = "Reconnect" /\ ret.err = "running"
           /\ ret'.op = "Reconnect" /\ ret'.err = NoErr
           /\ ret'.val[4] = "reconnected") =>
              /\ live'
              /\ d'.dev = opened /\ d'.dev # d.dev
              /\ hist'[d'.dev].closes = 0
              /\ hist[d.dev].closes = 0 /\ hist'[d.dev].closes = 1
              /\ d'.desc = d.desc
              /\ d'.serial = d.serial]_vars
    /\ [](\A h \in 1..MaxHandles : hist[h].closes <= 1)

\* The second Reconnect in a row has returned nil: the Deck holds the
\* third handle, the first two are closed.
HandleReplacedWitness ==
    /\ Returned /\ ret.err = NoErr
    /\ rc.done = 2 /\ live /\ d.dev = 3
    /\ hist[1].closes = 1 /\ hist[2].closes = 1 /\ hist[3].closes = 0

\* C20: once the context is cancelled Reconnect returns, provided the
\* enumerations and the calls of NewDeck return; what it returns on
\* cancellation is the error of the last cycle completed, ErrNotConnected
\* when the serial was not found in it and the error of the failed NewDeck
\* otherwise.
CancelledReturns ==
    /\ (pc \in {"Reconnect", "NewDeck"} /\ rc.cancelled) ~> (pc = "idle")
    /\ [][(pc = "Reconnect" /\ pc' = "idle") =>
              /\ ret'.op = "Reconnect"
              /\ rc.last = "absent" => ret'.err = ErrNotConnected
              /\ rc.last = "failed" =>
                     ret'.err \in {"open failed", ErrTransport}]_vars

\* Reconnect was cancelled after a cycle in which NewDeck failed to open
\* the unit, and has returned that error.
CancelledReturnsWitness ==
    /\ Returned /\ ret.val[4] = "cancelled"
    /\ ret.val[3] = "failed" /\ ret.err = "open failed"

(***************************************************************************)
(* Properties of NewDeck, checked under SpecOpen and Spec.                 *)
(***************************************************************************)
\* NewDeck returned to the program.
Opened == ret.op = "NewDeck" /\ pc = "idle"

\* C21: NewDeck with a model identifier that is neither hid.ProductIDAny
\* nor in the registry returns the unknown-model error whatever is on the
\* bus, and the step opens no handle and makes no transport call.
UnknownModelRefused ==
    [][(ret'.op = "NewDeck" /\ ret'.val[1] \notin PIDs \cup {ProductIDAny}) =>
          /\ ret'.err = "not a valid deck device identifier"
          /\ pc' = "idle" /\ ~live' /\ nd' = NoNewDeck
          /\ log' = <<>>
          /\ opened' = opened /\ hist' = hist /\ stream' = stream]_vars

UnknownModelRefusedWitness ==
    /\ Opened /\ ret.val[1] = UnknownPID
    /\ ret.err = "not a valid deck device identifier"
    /\ attached /\ unit.ahead # <<>> /\ opened > 0

\* Handle h is open: it was opened and has not been closed.
IsOpen(h) == h <= opened /\ hist[h].closes = 0

\* C22: a NewDeck that fails after it opened a handle, in its key-stream
\* reset or in its serial query, closes that handle exactly once as its
\* last transport call and returns the error and no Deck; a NewDeck that
\* fails inside Reconnect does the same and leaves the receiver as it was.
\* So the only open handles are the one the Deck holds and the one of a
\* NewDeck under way.
ClosedOnFailure ==
    /\ [][(/\ pc = "NewDeck" /\ nd' = NoNewDeck
           /\ \/ nd.caller = "main" /\ ret'.err # NoErr
              \/ nd.caller = "Reconnect" /\ pc' = "Reconnect") =>
              /\ hist[nd.deck.dev].closes = 0
              /\ hist'[nd.deck.dev].closes = 1
              /\ log'[Len(log')] =
                     Call(nd.deck.dev, "Close", "close", <<>>, TRUE, 0)
              /\ \A i \in 1..(Len(log') - 1) :
                     log'[i].h = nd.deck.dev => log'[i].op # "Close"
              /\ IF nd.caller = "main"
                 THEN d' = NoDeck /\ ~live'
                      /\ ret'.err \in {ErrTransport, ErrNotConnected}
                 ELSE d' = d /\ live' /\ IsOpen(d.dev)'
                      /\ rc'.err \in {ErrTransport, ErrNotConnected}]_vars
    /\ [](\A h \in 1..MaxHandles :
             IsOpen(h) => \/ live /\ d.dev = h
                          \/ pc = "NewDeck" /\ nd.deck.dev = h)

\* NewDeck failed in its serial query, after the key-stream reset.
ClosedOnFailureWitness ==
    /\ Opened /\ ret.err # NoErr /\ opened > 0
    /\ Len(log) > 2 /\ log[Len(log)].op = "Close"
    /\ log[Len(log) - 1].kind = "serial" /\ ~log[Len(log) - 1].ok
    /\ hist[opened].closes = 1

\* The program calls NewDeck(pid, serial) in this step.
NewDeckCalled(pid, serial) ==
    /\ pc = "idle" /\ ~live /\ attached' = attached
    /\ ret'.op = "NewDeck" /\ ret'.val = <<pid, serial>>

\* C23: NewDeck with hid.ProductIDAny and a serial that a supported device
\* on the bus has settles on that device's model, wherever the device is in
\* the enumeration order (the open itself may fail); with an empty serial it
\* settles on the model of the first enumerated device.
AnyBindsBySerial ==
    [][\A serial \in SerialInputs :
          NewDeckCalled(ProductIDAny, serial) =>
              /\ \A i \in 1..Len(Bus) :
                    (serial = Bus[i].serial /\ Bus[i].pid \in PIDs) =>
                        /\ ret'.err \in {"running", "open failed"}
                        /\ ret'.err = "running" => nd'.deck.desc = Bus[i].pid
              /\ (serial = NoSerial /\ Bus # <<>> /\ Bus[1].pid \in PIDs) =>
                        /\ ret'.err \in {"running", "open failed"}
                        /\ ret'.err = "running" =>
                               nd'.deck.desc = Bus[1].pid]_vars

\* C24: a NewDeck called with an empty serial does not return a Deck
\* without the serial query: once its key-stream reset has succeeded its
\* next transport call is the query, and the Deck it returns caches the
\* string the unit answered.  From then on Serial returns a non-empty
\* cached serial with no transport call, and makes its one
\* GetFeatureReport only when the cached serial is empty.
SerialCached ==
    /\ [][/\ (pc = "NewDeck" /\ nd.at = "reset" /\ nd.arg = NoSerial
              /\ nd' # nd) =>
                 \/ nd'.at = "serial" /\ pc' = "NewDeck"
                 \/ ret'.err # NoErr /\ ~live'
          /\ (pc = "NewDeck" /\ nd.at = "serial" /\ log' # log) =>
                 /\ nd.arg = NoSerial
                 /\ Len(log') > Len(log)
                 /\ log'[Len(log) + 1].h = nd.deck.dev
                 /\ log'[Len(log) + 1].op = "GetFeatureReport"
                 /\ log'[Len(log) + 1].kind = "serial"
                 /\ ret'.err = NoErr =>
                        /\ live' /\ d'.dev = nd.deck.dev
                        /\ d'.serial = unit.serial
                        /\ d'.serial =
                               Answered(SubSeq(d'.buf, 1,
                                               SerialLen(devices[d'.desc])),
                                        devices[d'.desc].serialOffset)]_vars
    /\ [](ret.op = "Serial" =>
             IF d.serial # NoSerial
             THEN ret.val = d.serial /\ ret.err = NoErr /\ log = <<>>
             ELSE Len(log) = 1 /\ log[1].op = "GetFeatureReport"
                  /\ log[1].h = d.dev)

\* Serial answered from the cache of a Deck whose NewDeck queried the unit:
\* the scratch buffer still holds the unit's answer.
SerialCachedWitness ==
    /\ ret.op = "Serial" /\ log = <<>> /\ d.serial = UnitSerial
    /\ ret.val = UnitSerial
    /\ Answered(SubSeq(d.buf, 1, SerialLen(Desc)), Desc.serialOffset)
           = UnitSerial

(***************************************************************************)
(* The connectivity check, checked under SpecConnected.                    *)
(***************************************************************************)
\* The program calls the operation op of the Deck in this step.
Called(op) ==
    /\ pc = "idle" /\ live /\ attached' = attached /\ ret'.op = op

\* A device of the deck's model with the deck's cached serial is on the bus.
OnBus(deck) ==
    \E i \in 1..Len(Bus) :
        Bus[i].pid = deck.desc /\ Bus[i].serial = deck.serial

\* C25: the connectivity check, as Reset and SetBrightness apply it to the
\* error of their transport call: nil stays nil whatever is on the bus; an
\* error becomes ErrNotConnected when no device of the deck's model with
\* the cached serial is enumerated, and is returned unchanged otherwise.
ConnectivityChecked ==
    [][\A op \in {"Reset", "SetBrightness"} :
          (Called(op) /\ log' # <<>>) =>
              ret'.err = IF log'[1].ok THEN NoErr
                         ELSE IF OnBus(d) THEN ErrTransport
                         ELSE ErrNotConnected]_vars

\* Reset failed on an unplugged unit while a device of another model with
\* the cached serial was on the bus.
ConnectivityCheckedWitness ==
    /\ ret.op = "Reset" /\ ret.err = ErrNotConnected
    /\ log # <<>> /\ ~log[1].ok
    /\ ~attached /\ unit.ahead # <<>> /\ unit.ahead[1].serial = d.serial

\* C26: Reset, ResetKeyStream, SetBrightness, Serial and Firmware return
\* ErrNotConnected when their transport call fails and no device of the
\* deck's model with the cached serial is enumerated.
AllConnectivityChecked ==
    [][\A op \in {"Reset", "ResetKeyStream", "SetBrightness", "Serial",
                   "Firmware"} :
          (Called(op) /\ log' # <<>> /\ ~log'[1].ok /\ ~OnBus(d)) =>
              ret'.err = ErrNotConnected]_vars

(***************************************************************************)
(* Image preparation, checked under SpecRaw.                               *)
(***************************************************************************)
\* C27: on a control-only model RawImage, and SetImage with a row and a
\* column in range, return "images not supported by" and the name of the
\* model, and make no transport call.
ImagesRefused ==
    (~Desc.visual /\ ret.op \in {"RawImage", "SetImage"}) =>
        /\ d.desc = StreamDeckPedal
        /\ ret.err = "images not supported by StreamDeckPedal"
        /\ ret.op = "SetImage" =>
               /\ ret.val[1] \in 0..(Desc.rows - 1)
               /\ ret.val[2] \in 0..(Desc.cols - 1)
        /\ log = <<>> /\ pc = "idle"
        /\ ~hist[d.dev].imaged

\* SetImage was refused for the last pedal of the Stream Deck Pedal.
ImagesRefusedWitness ==
    /\ d.desc = StreamDeckPedal /\ ret.op = "SetImage"
    /\ ret.val = <<0, Desc.cols - 1>>
    /\ ret.err = "images not supported by StreamDeckPedal"

RECURSIVE Writes(_, _, _, _, _, _)
\* The reports SetImage writes for the payload data from offset off on,
\* the report before them being pkt.
Writes(dsc, key, data, off, page, pkt) ==
    IF Len(data) - off = 0 THEN <<>>
    ELSE LET hlen == Len(dsc.imageHeader)
             cap == ReportLen(dsc) - hlen
             n == ReadLen(cap, Len(data) - off)
             body == ReadInto(pkt, hlen, data, off, n)
             next == CopyAt(body, 0,
                            fillHeader(dsc, SubSeq(body, 1, hlen), key, page,
                                       n, Done(Len(data) - off - n, n, cap)))
         IN  <<next>> \o Writes(dsc, key, data, off + n, page + 1, next)

Gap(a, b) == IF a < b THEN b - a ELSE a - b

\* C30: on a square key of side S, a source of w by h pixels, w and h at
\* least 1, is scaled into a rectangle inside the key: S wide and
\* floor(h*S/w) high when w > h, S high and floor(w*S/h) wide when w < h,
\* the whole key when w = h; the margins on the two sides of the shorter
\* dimension differ by at most one pixel, and there is none on the other.
AspectKept ==
    ret.op = "keepAspectRatio" =>
        LET S == Desc.keySize[1]
            w == ret.val[1]
            h == ret.val[2]
            r == ret.val[3]
        IN  /\ Desc.keySize[2] = S /\ w >= 1 /\ h >= 1
            /\ 0 <= r.Min[1] /\ r.Min[1] <= r.Max[1] /\ r.Max[1] <= S
            /\ 0 <= r.Min[2] /\ r.Min[2] <= r.Max[2] /\ r.Max[2] <= S
            /\ w > h => /\ Dx(r) = S /\ Dy(r) = (h * S) \div w
                        /\ Gap(r.Min[2], S - r.Max[2]) <= 1
            /\ w < h => /\ Dy(r) = S /\ Dx(r) = (w * S) \div h
                        /\ Gap(r.Min[1], S - r.Max[1]) <= 1
            /\ w = h => r = Rectangle(<<0, 0>>, <<S, S>>)

\* A wide source whose margins above and below cannot be equal.
AspectKeptWitness ==
    /\ ret.op = "keepAspectRatio"
    /\ ret.val[1] > ret.val[2]
    /\ ret.val[3].Min[2] + 1 = Desc.keySize[2] - ret.val[3].Max[2]

(***************************************************************************)
(* The geometric transforms, checked under SpecTransform.                  *)
(***************************************************************************)
\* C31: on a button image of W by H pixels with origin (0, 0) the rotation
\* by 180 degrees reads for (x, y) the source pixel (W-1-x, H-1-y) and the
\* transpose the source pixel (y, x); every coordinate read is inside the
\* source, and every source pixel appears exactly once in the output.
PixelsPermuted ==
    /\ ret.op = "At" =>
           LET x == ret.val[1]
               y == ret.val[2]
           IN  /\ ret.val[3] = IF Desc.transform = "transpose" THEN <<y, x>>
                                ELSE <<Dx(KeyBounds) - 1 - x,
                                       Dy(KeyBounds) - 1 - y>>
               /\ In(ret.val[3], KeyBounds)
    /\ ret.op = "transform" =>
           \A px \in 1..(Dx(KeyBounds) * Dy(KeyBounds)) :
               Cardinality({i \in 1..Len(ret.val) : ret.val[i] = px}) = 1

(***************************************************************************)
(* The descriptor registry.                                                *)
(***************************************************************************)
\* The zero-based offsets of the header bytes a header filler writes.
Written(dsc) ==
    IF dsc.fillHeader = "writeHeaderV1" THEN {2, 4, 5} ELSE 2..7

\* C32: every registered descriptor is filed under its own PID; each
\* command prefix, with its argument byte where it has one, fits the buffer
\* it is written to; the offsets of the serial and of the firmware version
\* are inside the answers; the scratch buffer is as long as the longest
\* report sliced from it; and on a visual model every header byte that is
\* filled in is inside the header, which is shorter than the image report.
RegistryConsistent ==
    \A p \in PIDs :
        LET dsc == devices[p]
        IN  /\ dsc.PID = p
            /\ (live /\ d.desc = p) =>
                   /\ Len(d.buf) = bufLen(dsc)
                   /\ \A i \in 1..Len(log) :
                          log[i].op \in {"SendFeatureReport",
                                         "GetFeatureReport"} =>
                              Len(log[i].data) <= Len(d.buf)
            /\ Len(dsc.brightness) + 1 <= dsc.payloadLen
            /\ Len(dsc.firmware) + 1 <= dsc.payloadLen
            /\ Len(dsc.serial) + 1 <= SerialLen(dsc)
            /\ Len(dsc.reset) <= dsc.payloadLen
            /\ Len(dsc.resetKeyStream) <= dsc.payloadLen
            /\ 0 <= dsc.serialOffset /\ dsc.serialOffset < SerialLen(dsc)
            /\ 0 <= dsc.firmwareOffset /\ dsc.firmwareOffset < dsc.payloadLen
            /\ bufLen(dsc) >= dsc.payloadLen /\ bufLen(dsc) >= SerialLen(dsc)
            /\ Len(Deck(p, NoSerial, 1).buf) = bufLen(dsc)
            /\ dsc.visual =>
                   /\ \A o \in Written(dsc) : o < Len(dsc.imageHeader)
                   /\ Len(dsc.imageHeader) < dsc.imgReportLen

\* The serial query of the model whose serial report is longer than its
\* other reports has been made from the scratch buffer.
RegistryConsistentWitness ==
    /\ ret.op = "Serial" /\ Len(log) = 1
    /\ Desc.serialPayloadLen > Desc.payloadLen
    /\ Len(log[1].data) = Desc.serialPayloadLen
    /\ Len(d.buf) = Desc.serialPayloadLen

\* C33: the registry is never written: whatever sessions are opened and
\* closed and whatever is streamed or sent, every byte slice of every
\* entry, the image header template and the command prefixes, is what it
\* was when the package was initialised.
RegistryUntouched == reg = Slices

\* A second session has filled in the headers of a several-packet image.
RegistryUntouchedWitness ==
    /\ live /\ d.dev > 1 /\ ret.op = "SetImage" /\ ret.err = NoErr
    /\ Len(log) > 1
    /\ SubSeq(log[Len(log)].data, 1, Len(Desc.imageHeader))
           # reg[d.desc].imageHeader

(***************************************************************************)
(* The cycles of Reconnect, checked under SpecShared.                      *)
(***************************************************************************)
\* Reconnect goes through a cycle in this step: the timer case of its
\* select is taken, the bus is enumerated and, if the serial is found,
\* NewDeck is called.
Cycle ==
    /\ pc = "Reconnect"
    /\ \/ rc'.cycles = rc.cycles + 1
       \/ pc' = "NewDeck"

\* C34: a cycle of Reconnect calls NewDeck only when a device of the
\* deck's model with the cached serial is enumerated, and then for the
\* deck's PID and cached serial; when none is enumerated the cycle sets the
\* error to ErrNotConnected and goes back to the delay, and no handle is
\* opened.
OpensOnlyFound ==
    [][Cycle =>
          IF OnBus(d)
          THEN /\ pc' = "NewDeck" =>
                      /\ opened' = opened + 1
                      /\ nd'.caller = "Reconnect"
                      /\ nd'.deck.desc = d.desc
                      /\ nd'.deck.serial = d.serial
                      /\ nd'.arg = d.serial
                      /\ nd'.deck.dev = opened'
               /\ pc' = "Reconnect" =>
                      /\ opened' = opened
                      /\ rc'.last = "failed" /\ rc'.err = "open failed"
          ELSE /\ pc' = "Reconnect" /\ nd' = NoNewDeck
               /\ opened' = opened /\ hist' = hist /\ log' = log
               /\ rc'.err = ErrNotConnected
               /\ rc'.last = "absent" /\ rc'.absent = rc.absent + 1]_vars

\* A cycle found only a device of the deck's model with another serial
\* and opened nothing; the cycle before it had called NewDeck.
OpensOnlyFoundWitness ==
    /\ pc = "Reconnect" /\ rc.last = "absent" /\ rc.cycles > 1
    /\ rc.err = ErrNotConnected
    /\ ~attached /\ unit.ahead # <<>> /\ unit.ahead[1].pid = d.desc
    /\ opened > 1

\* C35: once the context is cancelled Reconnect goes through no further
\* cycle: it enumerates no more and calls NewDeck no more.
NoCycleAfterCancel ==
    [][(pc = "Reconnect" /\ rc.cancelled) => ~Cycle]_vars

\* C37: a Reconnect that returns because its context was cancelled, after
\* any number of failed cycles, leaves the Deck as it was: handle,
\* descriptor, cached serial and scratch buffer are unchanged from the
\* call on, and the handle has not been closed.
CancelledUnchanged ==
    /\ [][(pc \in {"Reconnect", "NewDeck"} /\ pc' \in {"Reconnect", "NewDeck"})
              => /\ d' = d /\ live'
                 /\ hist'[d.dev] = hist[d.dev]]_vars
    /\ [][(pc = "idle" /\ pc' = "Reconnect") => d' = d /\ hist' = hist]_vars
    /\ [][(pc = "Reconnect" /\ pc' = "idle") =>
              /\ ret'.op = "Reconnect" /\ ret'.val[4] = "cancelled"
              /\ d' = d /\ live' /\ hist' = hist
              /\ IsOpen(d.dev)']_vars

\* Reconnect returned on cancellation after a cycle whose NewDeck failed
\* on a handle of its own.
CancelledUnchangedWitness ==
    /\ Returned /\ ret.val[4] = "cancelled" /\ ret.val[3] = "failed"
    /\ opened > 1 /\ hist[opened].closes = 1 /\ d.dev = 1 /\ IsOpen(1)

\* The operations of a session that use the transport.
SessionOps ==
    {"Reset", "ResetKeyStream", "SetBrightness", "Serial", "Firmware",
     "KeyStates", "SetImage"}

\* C36: no operation other than Reconnect retries.  In every step of Reset,
\* ResetKeyStream, SetBrightness, Serial, Firmware, KeyStates and SetImage
\* the transport calls are reads, writes and feature reports on the deck's
\* handle, a call that failed is the last call of the operation, which has
\* returned, and no handle is opened, closed or put in the place of the
\* deck's.
NoRetry ==
    [][/\ ret'.op \in SessionOps =>
            \A i \in 1..Len(log') :
                /\ log'[i].h = d.dev
                /\ log'[i].op \in {"Read", "Write", "SendFeatureReport",
                                   "GetFeatureReport"}
                /\ ~log'[i].ok =>
                       /\ i = Len(log')
                       /\ pc' = "idle"
       /\ opened' = opened
       /\ d'.dev = d.dev /\ d'.desc = d.desc /\ d'.serial = d.serial
       /\ live' = live
       /\ \A h \in DOMAIN hist : hist'[h].closes = hist[h].closes]_vars

\* A SetImage gave up on its second report, on a unit still on the bus.
NoRetryWitness ==
    /\ pc = "idle" /\ ret.op = "SetImage" /\ ret.err = ErrTransport
    /\ Len(log) = 2 /\ log[1].ok /\ ~log[2].ok
    /\ attached /\ IsOpen(d.dev)

\* The prefix of the feature report a call is for.
PrefixOf(dsc, kind) ==
    CASE kind = "reset" -> dsc.reset
      [] kind = "resetKeyStream" -> dsc.resetKeyStream
      [] kind = "brightness" -> dsc.brightness
      [] kind = "serial" -> dsc.serial
      [] kind = "firmware" -> dsc.firmware

\* The values the argument byte of such a report can take: a percentage,
\* the length of the report for the two queries, none for the resets.
ArgumentOf(kind, n) ==
    CASE kind = "brightness" -> 0..100
      [] kind \in {"serial", "firmware"} -> {n}
      [] OTHER -> {0}

\* C38: the scratch buffer leaks nothing between commands.  Whatever the
\* commands and answers before it left in the deck's buffer, every buffer
\* handed to SendFeatureReport or GetFeatureReport is the prefix of the
\* command under way, then its argument byte if it has one, then zeros to
\* the end of the report, whose length is that of the command.
ScratchClean ==
    \A i \in 1..Len(log) :
        log[i].op \in {"SendFeatureReport", "GetFeatureReport"} =>
            LET dsc == devices[d.desc]
                prefix == PrefixOf(dsc, log[i].kind)
                n == IF log[i].kind = "serial" THEN SerialLen(dsc)
                     ELSE dsc.payloadLen
                b == log[i].data
            IN  /\ Len(b) = n
                /\ n <= Len(d.buf)
                /\ \A j \in 1..Len(prefix) : b[j] = prefix[j]
                /\ b[Len(prefix) + 1] \in ArgumentOf(log[i].kind, n)
                /\ \A j \in (Len(prefix) + 2)..n : b[j] = 0

\* A command shorter than the buffer was sent after a serial answer that
\* filled the buffer beyond the length of the command; the bytes of the
\* answer are still in the deck's buffer behind those of the command.
ScratchCleanWitness ==
    /\ pc = "idle" /\ ret.op \in {"Reset", "SetBrightness", "Firmware"}
    /\ Len(log) = 1 /\ log[1].ok
    /\ Len(log[1].data) = Desc.payloadLen
    /\ Desc.payloadLen < Len(d.buf)
    /\ \A j \in (Desc.payloadLen + 1)..Len(d.buf) : d.buf[j] # 0

\* The page field of a V1 header and the fields of a V2 header.
PageV1(hdr) == hdr[3]
KeyV1(hdr) == hdr[6]
KeyV2(hdr) == hdr[3]
LenV2(hdr) == hdr[5] + 256 * hdr[6]
PageV2(hdr) == hdr[7] + 256 * hdr[8]

\* C39: header fields are truncated to their width on the wire.  A V1
\* header carries page mod 256 and (key+1) mod 256, a V2 header key mod 256
\* and the chunk length and the page mod 65536.  Two packets of a V1
\* transfer so carry the same page field exactly when their pages differ
\* by a multiple of 256, and the bitmap of a key of a V1 model, the only
\* payload SetImage streams to it, takes fewer than 256 packets.
HeaderTruncated ==
    ret.op = "fillHeader" =>
        LET key == ret.val[1]
            page == ret.val[2]
            len == ret.val[3]
            hdr == ret.val[5]
        IN  IF Desc.fillHeader = "writeHeaderV1"
            THEN /\ PageV1(hdr) = page % 256
                 /\ KeyV1(hdr) = (key + 1) % 256
                 /\ \A q \in PageInputs :
                        PageV1(fillHeader(Desc, reg[d.desc].imageHeader,
                                          key, q, len, ret.val[4]))
                            = PageV1(hdr)
                        <=> (q - page) % 256 = 0
                 /\ Ceil(bmpLen(Desc.keySize),
                         Desc.imgReportLen - Len(Desc.imageHeader)) < 256
            ELSE /\ KeyV2(hdr) = key % 256
                 /\ LenV2(hdr) = len % 65536
                 /\ PageV2(hdr) = page % 65536

\* The 257th packet of a V1 transfer, to a key numbered 255, carries the
\* page field and the key field of the first packet to no key.
HeaderTruncatedWitness ==
    /\ ret.op = "fillHeader" /\ Desc.fillHeader = "writeHeaderV1"
    /\ ret.val[1] = 255 /\ ret.val[2] = 256
    /\ PageV1(ret.val[5]) = 0 /\ KeyV1(ret.val[5]) = 0

====
